---- MODULE Spec2Model ----
(***************************************************************************)
(* Packtrack report: the aggregation engine (utils.ts, aggregateData), the *)
(* package catalog (types.ts), the CSV decoder (utils.ts, parseCSV), the   *)
(* date helpers and the CSV export (App.tsx) as a state machine.           *)
(*   data, result   the record list handed to aggregateData and what it    *)
(*                  returned                                               *)
(*   text, parsed   the text handed to parseCSV and its outcome            *)
(*   display, iso, shown                                                   *)
(*                  a date text, what the decoder stores for it and how    *)
(*                  the stored value is displayed again                    *)
(*   exported       the outcome of exportToCSV on the list `data`          *)
(* and the interactive parts:                                              *)
(*   app            App's state besides `data`, with its pending loadData  *)
(*                  and handleAddRecord calls                              *)
(*   store          the store script: the sheet, the script lock and the   *)
(*                  requests being handled                                 *)
(*   upload         DataUploader: the file chosen, the error shown and     *)
(*                  what onDataLoaded was called with                      *)
(*   table          DataTable: row count, page and sort configuration      *)
(*   modal          SuccessModal: isOpen, isVisible and its timers         *)
(***************************************************************************)
EXTENDS Integers, Sequences, FiniteSets, TLC

VARIABLES data, result, text, parsed, display, iso, shown, exported,
          app, store, upload, table, modal

vars ==
  << data, result, text, parsed, display, iso, shown, exported,
     app, store, upload, table, modal >>

(***************************************************************************)
(* Package catalog (types.ts)                                              *)
(***************************************************************************)
PACKAGE_COLUMNS ==
  << "110x110x115 QTY", "110x110x90 QTY", "110x110x65 QTY",
     "80X120X115 QTY", "80X120X90 QTY", "80X120X65 QTY",
     "RETURNABLE QTY",
     "42X46X68 QTY", "47X66X68 QTY", "53X53X58 QTY", "57X64X84 QTY",
     "68X74X86 QTY", "70X100X90 QTY", "27X27X22 QTY", "53X53X19 QTY",
     "WARP QTY", "UNIT QTY" >>

\* Object.keys(PACKAGE_GROUPS): no key is an array index, so declaration order
GroupNames ==
  << "Standard Package", "Returnable Package", "Boxes Package", "Warp Package" >>

\* variant: "UNIT QTY" left out of its group
PACKAGE_GROUPS_WithoutUnit ==
  ( "Standard Package" :>
      << "110x110x115 QTY", "110x110x90 QTY", "110x110x65 QTY",
         "80X120X115 QTY", "80X120X90 QTY", "80X120X65 QTY" >> ) @@
  ( "Returnable Package" :> << "RETURNABLE QTY" >> ) @@
  ( "Boxes Package" :>
      << "42X46X68 QTY", "47X66X68 QTY", "53X53X58 QTY", "57X64X84 QTY",
         "68X74X86 QTY", "70X100X90 QTY", "27X27X22 QTY", "53X53X19 QTY" >> ) @@
  ( "Warp Package" :> << "WARP QTY" >> )

PACKAGE_GROUPS ==
  ( "Standard Package" :>
      << "110x110x115 QTY", "110x110x90 QTY", "110x110x65 QTY",
         "80X120X115 QTY", "80X120X90 QTY", "80X120X65 QTY" >> ) @@
  ( "Returnable Package" :> << "RETURNABLE QTY" >> ) @@
  ( "Boxes Package" :>
      << "42X46X68 QTY", "47X66X68 QTY", "53X53X58 QTY", "57X64X84 QTY",
         "68X74X86 QTY", "70X100X90 QTY", "27X27X22 QTY", "53X53X19 QTY" >> ) @@
  ( "Warp Package" :> << "WARP QTY", "UNIT QTY" >> )

PACKAGE_RATIOS ==
  ( "110x110x115 QTY" :> 1 ) @@ ( "110x110x90 QTY" :> 1 ) @@
  ( "110x110x65 QTY" :> 1 ) @@ ( "80X120X115 QTY" :> 1 ) @@
  ( "80X120X90 QTY" :> 1 ) @@ ( "80X120X65 QTY" :> 1 ) @@
  ( "RETURNABLE QTY" :> 2 ) @@
  ( "42X46X68 QTY" :> 3 ) @@ ( "47X66X68 QTY" :> 3 ) @@
  ( "53X53X58 QTY" :> 3 ) @@ ( "57X64X84 QTY" :> 3 ) @@
  ( "68X74X86 QTY" :> 3 ) @@ ( "70X100X90 QTY" :> 3 ) @@
  ( "27X27X22 QTY" :> 30 ) @@ ( "53X53X19 QTY" :> 30 ) @@
  ( "WARP QTY" :> 10 ) @@ ( "UNIT QTY" :> 1 )

SeqToSet(s) == { s[i] : i \in 1..Len(s) }

(***************************************************************************)
(* JavaScript values.  A record is a function from the field names it has  *)
(* to their values; a field the record lacks reads as undefined.  A number *)
(* that may be NaN is <<n>> or NaN.                                        *)
(***************************************************************************)
NaN == << >>

Num(n) == << n >>

IsNaN(x) == x = NaN

Has(row, field) == field \in DOMAIN row

\* (row[field] || 0) for a numeric field: undefined and 0 both give 0
NumOr0(row, field) == IF Has(row, field) THEN row[field] ELSE 0

\* acc + row.QTY: adding undefined gives NaN
JsAddQty(acc, row) ==
  IF IsNaN(acc) \/ ~Has(row, "QTY") THEN NaN ELSE Num(acc[1] + row["QTY"])

\* (x || 0) for a number that may be NaN
JsOr0(x) == IF IsNaN(x) THEN 0 ELSE x[1]

(***************************************************************************)
(* Object property order and Array.prototype.sort                          *)
(***************************************************************************)
\* The names of the model's input domain that are canonical array indices,
\* with their numeric value.  Object.entries lists such keys first, in
\* ascending numeric order, and every other string key after them in the
\* order of first assignment.
ArrayIndexKeys == ( "7" :> 7 ) @@ ( "10" :> 10 )

IsArrayIndex(name) == name \in DOMAIN ArrayIndexKeys

\* position of the entry called `name` in an insertion-ordered object, 0 if none
IndexOf(obj, name) ==
  IF \E i \in 1..Len(obj) : obj[i].name = name
    THEN CHOOSE i \in 1..Len(obj) : obj[i].name = name
    ELSE 0

RECURSIVE SelectEntries(_, _, _)
\* the entries of obj[1..n] whose name is (isIndex) / is not an array index
SelectEntries(obj, n, isIndex) ==
  IF n = 0 THEN << >>
  ELSE LET rest == SelectEntries(obj, n - 1, isIndex)
       IN IF IsArrayIndex(obj[n].name) = isIndex
            THEN Append(rest, obj[n]) ELSE rest

RECURSIVE AscendingByIndex(_)
\* array-index entries in ascending numeric order of their key
AscendingByIndex(es) ==
  IF es = << >> THEN << >>
  ELSE LET m == CHOOSE i \in 1..Len(es) :
                  \A j \in 1..Len(es) :
                    ArrayIndexKeys[es[i].name] <= ArrayIndexKeys[es[j].name]
           others == [ k \in 1..(Len(es) - 1) |->
                         IF k < m THEN es[k] ELSE es[k + 1] ]
       IN << es[m] >> \o AscendingByIndex(others)

\* Object.entries(obj) / Object.values(obj) order for an object whose
\* properties were created in the order of the sequence obj
ObjectEntries(obj) ==
  AscendingByIndex(SelectEntries(obj, Len(obj), TRUE))
    \o SelectEntries(obj, Len(obj), FALSE)

\* A comparator (a, b) => key(b) - key(a) returns NaN when a key is NaN and
\* sort then takes it as +0.  It is a consistent comparator when no key is
\* NaN, or when all keys that are numbers are equal (then everything
\* compares equal).
ConsistentKeys(keys) ==
  \/ \A i \in 1..Len(keys) : ~IsNaN(keys[i])
  \/ \A i, j \in 1..Len(keys) :
       (~IsNaN(keys[i]) /\ ~IsNaN(keys[j])) => keys[i] = keys[j]

\* where sort puts element i for a consistent descending comparator: after
\* every element with a larger key and after the earlier elements with an
\* equal key (the sort is stable)
RankDesc(keys, i) ==
  1 + Cardinality({ j \in 1..Len(keys) :
                      \/ keys[j][1] > keys[i][1]
                      \/ (keys[j][1] = keys[i][1] /\ j < i) })

\* indices of keys (all numbers) in stable descending order of key
StableDescOrder(keys) ==
  [ p \in 1..Len(keys) |-> CHOOSE i \in 1..Len(keys) : RankDesc(keys, i) = p ]

IndexPermutations(n) ==
  { p \in [1..n -> 1..n] : \A i, j \in 1..n : p[i] = p[j] => i = j }

\* The index orders sort may produce for a descending numeric comparator:
\* the stable descending order when the comparator is consistent (ECMAScript
\* sort is stable), any permutation otherwise (implementation-defined).
SortOrders(keys) ==
  IF \A i \in 1..Len(keys) : ~IsNaN(keys[i])
    THEN { StableDescOrder(keys) }
  ELSE IF ConsistentKeys(keys)
    THEN { [ i \in 1..Len(keys) |-> i ] }
  ELSE IndexPermutations(Len(keys))

Reorder(s, order) == [ i \in 1..Len(s) |-> s[order[i]] ]

\* entries .sort((a, b) => b.value - a.value), value a number that may be NaN
SortByValueDesc(es) ==
  { Reorder(es, o) : o \in SortOrders([ i \in 1..Len(es) |-> es[i].value ]) }

(***************************************************************************)
(* aggregateData (utils.ts)                                                *)
(***************************************************************************)
RECURSIVE TotalItems_SumsSI(_, _)
\* variant: the reducer reads "SI QTY" instead of QTY
TotalItems_SumsSI(d, n) ==
  IF n = 0 THEN 0 ELSE TotalItems_SumsSI(d, n - 1) + NumOr0(d[n], "SI QTY")

RECURSIVE TotalItems(_, _)
\* data.reduce((acc, curr) => acc + (curr.QTY || 0), 0) over the first n rows
TotalItems(d, n) ==
  IF n = 0 THEN 0 ELSE TotalItems(d, n - 1) + NumOr0(d[n], "QTY")

RECURSIVE TotalSI(_, _)
TotalSI(d, n) ==
  IF n = 0 THEN 0 ELSE TotalSI(d, n - 1) + NumOr0(d[n], "SI QTY")

RECURSIVE RowPackages_CountsColumns(_, _)
\* variant: a non-zero column adds 1 instead of its value
RowPackages_CountsColumns(row, n) ==
  IF n = 0 THEN 0
  ELSE LET col == PACKAGE_COLUMNS[n]
       IN RowPackages_CountsColumns(row, n - 1)
            + (IF Has(row, col) /\ row[col] # 0 THEN 1 ELSE 0)

RECURSIVE RowPackages(_, _)
\* PACKAGE_COLUMNS.forEach(col => { val = row[col]; if (val) total += val })
\* over the first n columns
RowPackages(row, n) ==
  IF n = 0 THEN 0
  ELSE LET col == PACKAGE_COLUMNS[n]
       IN RowPackages(row, n - 1)
            + (IF Has(row, col) /\ row[col] # 0 THEN row[col] ELSE 0)

RECURSIVE TotalPackages(_, _)
TotalPackages(d, n) ==
  IF n = 0 THEN 0
  ELSE TotalPackages(d, n - 1) + RowPackages(d[n], Len(PACKAGE_COLUMNS))

\* obj[name] = value on an insertion-ordered object
SetEntry(obj, name, entry) ==
  LET i == IndexOf(obj, name)
  IN IF i = 0 THEN Append(obj, entry) ELSE [ obj EXCEPT ![i] = entry ]

RECURSIVE ShipmentCounts(_, _)
\* shipmentCounts[row.Shipment] = (shipmentCounts[row.Shipment] || 0) + row.QTY
ShipmentCounts(d, n) ==
  IF n = 0 THEN << >>
  ELSE LET obj == ShipmentCounts(d, n - 1)
           row == d[n]
           i   == IndexOf(obj, row["Shipment"])
           old == IF i = 0 THEN 0 ELSE JsOr0(obj[i].value)
       IN SetEntry(obj, row["Shipment"],
                   [ name |-> row["Shipment"], value |-> JsAddQty(Num(old), row) ])

RECURSIVE ModeCounts(_, _)
\* modeCounts[row.Mode] = (modeCounts[row.Mode] || 0) + 1
ModeCounts(d, n) ==
  IF n = 0 THEN << >>
  ELSE LET obj == ModeCounts(d, n - 1)
           row == d[n]
           i   == IndexOf(obj, row["Mode"])
           old == IF i = 0 THEN 0 ELSE JsOr0(obj[i].value)
       IN SetEntry(obj, row["Mode"],
                   [ name |-> row["Mode"], value |-> Num(old + 1) ])

RECURSIVE PackageUsage(_, _, _)
\* packageUsage[col] after the first n rows: 0, then += (row[col] || 0)
PackageUsage(d, n, col) ==
  IF n = 0 THEN 0 ELSE PackageUsage(d, n - 1, col) + NumOr0(d[n], col)

RECURSIVE DailyPackages(_, _)
\* dailyPackages += (row[col] || 0) over the first n columns
DailyPackages(row, n) ==
  IF n = 0 THEN 0
  ELSE DailyPackages(row, n - 1) + NumOr0(row, PACKAGE_COLUMNS[n])

RECURSIVE DateMap_Overwrites(_, _)
\* variant: dateMap[d] is re-created for every row, the `if (!dateMap[d])`
\* guard being lost
DateMap_Overwrites(d, n) ==
  IF n = 0 THEN << >>
  ELSE LET obj == DateMap_Overwrites(d, n - 1)
           row == d[n]
           new == [ name |-> row["Date"], date |-> row["Date"],
                    qty |-> Num(0), packages |-> 0 ]
       IN SetEntry(obj, row["Date"],
                   [ new EXCEPT !.qty = JsAddQty(new.qty, row),
                                !.packages = DailyPackages(row, Len(PACKAGE_COLUMNS)) ])

RECURSIVE DateMap(_, _)
\* dateMap[d] created on first use, then qty += row.QTY, packages += daily
DateMap(d, n) ==
  IF n = 0 THEN << >>
  ELSE LET obj == DateMap(d, n - 1)
           row == d[n]
           i   == IndexOf(obj, row["Date"])
           old == IF i = 0
                    THEN [ name |-> row["Date"], date |-> row["Date"],
                           qty |-> Num(0), packages |-> 0 ]
                    ELSE obj[i]
       IN SetEntry(obj, row["Date"],
                   [ old EXCEPT !.qty = JsAddQty(old.qty, row),
                                !.packages = old.packages
                                  + DailyPackages(row, Len(PACKAGE_COLUMNS)) ])

\* sorted[0]?.[0] || "N/A": no first entry, or a first entry whose name is
\* the empty string, gives "N/A"
TopName(sorted) ==
  IF Len(sorted) = 0 THEN "N/A"
  ELSE IF sorted[1].name = "" THEN "N/A"
  ELSE sorted[1].name

(***************************************************************************)
(* Exact fractions for qty / ratio (IEEE rounding is not modelled)         *)
(***************************************************************************)
RECURSIVE Gcd(_, _)
Gcd(a, b) == IF b = 0 THEN a ELSE Gcd(b, a % b)

Abs(n) == IF n < 0 THEN 0 - n ELSE n

\* the fraction n / d, d > 0, in lowest terms
Frac(n, d) ==
  LET g == Gcd(Abs(n), d)
  IN [ num |-> n \div g, den |-> d \div g ]

FracAdd(a, b) == Frac(a.num * b.den + b.num * a.den, a.den * b.den)

\* PACKAGE_RATIOS[col] || 1
RatioOf(col) ==
  IF col \in DOMAIN PACKAGE_RATIOS /\ PACKAGE_RATIOS[col] # 0
    THEN PACKAGE_RATIOS[col] ELSE 1

\* variant: multiplication instead of division
Capacity_Multiplies(qty, ratio) ==
  IF ratio > 0 THEN Frac(qty * ratio, 1) ELSE Frac(0, 1)

\* ratio > 0 ? qty / ratio : 0
Capacity(qty, ratio) == IF ratio > 0 THEN Frac(qty, ratio) ELSE Frac(0, 1)

RECURSIVE RowGroupUsed(_, _, _)
\* what one row adds to groupStats[group] / ratioStats[group].used over the
\* first n columns of the group
RowGroupUsed(row, cols, n) ==
  IF n = 0 THEN 0
  ELSE RowGroupUsed(row, cols, n - 1) + NumOr0(row, cols[n])

RECURSIVE RowGroupCapacity(_, _, _)
\* what one row adds to ratioStats[group].maxCapacity
RowGroupCapacity(row, cols, n) ==
  IF n = 0 THEN Frac(0, 1)
  ELSE FracAdd(RowGroupCapacity(row, cols, n - 1),
               Capacity(NumOr0(row, cols[n]), RatioOf(cols[n])))

\* variant: groupStats[group] = qty instead of += qty, so only the last key of
\* the last row is kept
GroupStat_Assigns(d, n, group) ==
  IF n = 0 THEN 0
  ELSE NumOr0(d[n], PACKAGE_GROUPS[group][Len(PACKAGE_GROUPS[group])])

RECURSIVE GroupStat(_, _, _)
\* groupStats[group] after the first n rows
GroupStat(d, n, group) ==
  IF n = 0 THEN 0
  ELSE GroupStat(d, n - 1, group)
         + RowGroupUsed(d[n], PACKAGE_GROUPS[group], Len(PACKAGE_GROUPS[group]))

RECURSIVE RatioUsed(_, _, _)
\* ratioStats[group].used after the first n rows
RatioUsed(d, n, group) ==
  IF n = 0 THEN 0
  ELSE RatioUsed(d, n - 1, group)
         + RowGroupUsed(d[n], PACKAGE_GROUPS[group], Len(PACKAGE_GROUPS[group]))

RECURSIVE RatioMaxCapacity(_, _, _)
\* ratioStats[group].maxCapacity after the first n rows
RatioMaxCapacity(d, n, group) ==
  IF n = 0 THEN Frac(0, 1)
  ELSE FracAdd(RatioMaxCapacity(d, n - 1, group),
               RowGroupCapacity(d[n], PACKAGE_GROUPS[group],
                                Len(PACKAGE_GROUPS[group])))

(***************************************************************************)
(* Chart series                                                            *)
(***************************************************************************)
\* name.replace(" QTY", "") on the catalog keys
ReplaceQty(name) ==
  CASE name = "110x110x115 QTY" -> "110x110x115"
    [] name = "110x110x90 QTY"  -> "110x110x90"
    [] name = "110x110x65 QTY"  -> "110x110x65"
    [] name = "80X120X115 QTY"  -> "80X120X115"
    [] name = "80X120X90 QTY"   -> "80X120X90"
    [] name = "80X120X65 QTY"   -> "80X120X65"
    [] name = "RETURNABLE QTY"  -> "RETURNABLE"
    [] name = "42X46X68 QTY"    -> "42X46X68"
    [] name = "47X66X68 QTY"    -> "47X66X68"
    [] name = "53X53X58 QTY"    -> "53X53X58"
    [] name = "57X64X84 QTY"    -> "57X64X84"
    [] name = "68X74X86 QTY"    -> "68X74X86"
    [] name = "70X100X90 QTY"   -> "70X100X90"
    [] name = "27X27X22 QTY"    -> "27X27X22"
    [] name = "53X53X19 QTY"    -> "53X53X19"
    [] name = "WARP QTY"        -> "WARP"
    [] name = "UNIT QTY"        -> "UNIT"
    [] OTHER                    -> name

\* variant: the filter keeps zero totals (value >= 0)
RECURSIVE FilterPositive_KeepsZero(_, _)
FilterPositive_KeepsZero(es, n) ==
  IF n = 0 THEN << >>
  ELSE LET rest == FilterPositive_KeepsZero(es, n - 1)
       IN IF es[n].value >= 0 THEN Append(rest, es[n]) ELSE rest

\* .filter(item => item.value > 0), keeping order
RECURSIVE FilterPositive(_, _)
FilterPositive(es, n) ==
  IF n = 0 THEN << >>
  ELSE LET rest == FilterPositive(es, n - 1)
       IN IF es[n].value > 0 THEN Append(rest, es[n]) ELSE rest

\* variant: the entries are filtered but not sorted
PackageData_Unsorted(d) ==
  LET entries == [ i \in 1..Len(PACKAGE_COLUMNS) |->
                     [ name  |-> ReplaceQty(PACKAGE_COLUMNS[i]),
                       value |-> PackageUsage(d, Len(d), PACKAGE_COLUMNS[i]) ] ]
  IN FilterPositive(entries, Len(entries))

\* Object.entries(packageUsage).map(...).filter(...).sort((a, b) => b.value - a.value)
PackageData(d) ==
  LET entries  == [ i \in 1..Len(PACKAGE_COLUMNS) |->
                      [ name  |-> ReplaceQty(PACKAGE_COLUMNS[i]),
                        value |-> PackageUsage(d, Len(d), PACKAGE_COLUMNS[i]) ] ]
      kept     == FilterPositive(entries, Len(entries))
      keys     == [ i \in 1..Len(kept) |-> Num(kept[i].value) ]
  IN Reorder(kept, StableDescOrder(keys))

\* .slice(0, 5)
TopN == 5

\* variant: the slice keeps one entry more
Slice_OneMore(s, n) == SubSeq(s, 1, IF Len(s) < n + 1 THEN Len(s) ELSE n + 1)

Slice(s, n) == SubSeq(s, 1, IF Len(s) < n THEN Len(s) ELSE n)

\* new Date(date).getTime(), in days, for the date strings of the model's
\* input domain; every other string is an invalid date (NaN)
DateDays == ( "2024-12-25" :> 20082 ) @@ ( "2024-12-26" :> 20083 )

GetTime(date) == IF date \in DOMAIN DateDays THEN Num(DateDays[date]) ELSE NaN

\* Object.values(dateMap).sort((a, b) => time(a.date) - time(b.date)):
\* ascending in time is descending in negated time
TimelineData(d) ==
  LET values == ObjectEntries(DateMap(d, Len(d)))
      keys   == [ i \in 1..Len(values) |->
                    LET t == GetTime(values[i].date)
                    IN IF IsNaN(t) THEN NaN ELSE Num(0 - t[1]) ]
  IN { [ i \in 1..Len(values) |->
           [ date     |-> values[o[i]].date,
             qty      |-> values[o[i]].qty,
             packages |-> values[o[i]].packages ] ] : o \in SortOrders(keys) }

\* the stable descending order of entries whose values are all numbers
SortedModes(d) ==
  LET es == ObjectEntries(ModeCounts(d, Len(d)))
  IN Reorder(es, StableDescOrder([ i \in 1..Len(es) |-> es[i].value ]))

\* the value aggregateData returns, given the outcome of the customer sort
\* and of the timeline sort
AggregateResult(d, shipmentSorted, timeline) ==
  [ stats |->
      [ totalItems    |-> TotalItems(d, Len(d)),
        totalSI       |-> TotalSI(d, Len(d)),
        totalPackages |-> TotalPackages(d, Len(d)),
        topCustomer   |-> TopName(shipmentSorted),
        topMode       |-> TopName(SortedModes(d)) ],
    timelineData      |-> timeline,
    packageData       |-> PackageData(d),
    shipmentChartData |-> Slice(shipmentSorted, TopN),
    modeChartData     |-> ObjectEntries(ModeCounts(d, Len(d))),
    groupStats        |-> [ g \in SeqToSet(GroupNames) |-> GroupStat(d, Len(d), g) ],
    ratioStats        |->
      [ g \in SeqToSet(GroupNames) |->
          [ used        |-> RatioUsed(d, Len(d), g),
            maxCapacity |-> RatioMaxCapacity(d, Len(d), g) ] ] ]

aggregateData(d) ==
  { AggregateResult(d, s, t) :
      s \in SortByValueDesc(ObjectEntries(ShipmentCounts(d, Len(d)))),
      t \in TimelineData(d) }

(***************************************************************************)
(* Strings.  A string is the sequence of its characters, so that trimming, *)
(* splitting, padding and matching act on the text itself.                 *)
(***************************************************************************)
Quote == "\""

Comma == ","

Newline == "\n"

WhiteSpace == { " ", "\t", "\r", "\n" }

DigitChars == << "0", "1", "2", "3", "4", "5", "6", "7", "8", "9" >>

IsDigit(c) == \E i \in 1..10 : DigitChars[i] = c

DigitValue(c) == (CHOOSE i \in 1..10 : DigitChars[i] = c) - 1

AllDigits(s) == \A i \in 1..Len(s) : IsDigit(s[i])

\* String.prototype.trim
Trim(s) ==
  LET kept == { i \in 1..Len(s) : s[i] \notin WhiteSpace }
  IN IF kept = {} THEN << >>
     ELSE SubSeq(s, CHOOSE i \in kept : \A j \in kept : i <= j,
                    CHOOSE i \in kept : \A j \in kept : j <= i)

\* the position of the k-th occurrence of sep in s; 0 before the first and
\* Len(s) + 1 after the last
SepAt(s, sep, k) ==
  LET at == { i \in 1..Len(s) : s[i] = sep }
  IN IF k = 0 THEN 0
     ELSE IF k > Cardinality(at) THEN Len(s) + 1
     ELSE CHOOSE i \in at : Cardinality({ j \in at : j < i }) = k - 1

\* String.prototype.split with a one-character separator
Split(s, sep) ==
  [ k \in 1..(Cardinality({ i \in 1..Len(s) : s[i] = sep }) + 1) |->
      SubSeq(s, SepAt(s, sep, k - 1) + 1, SepAt(s, sep, k) - 1) ]

\* replace(/"/g, '')
StripQuotes(s) == SelectSeq(s, LAMBDA c : c # Quote)

\* String.prototype.includes
Includes(s, sub) ==
  \E i \in 0..(Len(s) - Len(sub)) : SubSeq(s, i + 1, i + Len(sub)) = sub

\* padStart(2, '0')
PadStart2(s) == IF Len(s) < 2 THEN << "0" >> \o s ELSE s

RECURSIVE DigitsOf(_)
\* String(n) for an integer n >= 0
DigitsOf(n) ==
  IF n < 10 THEN << DigitChars[n + 1] >>
  ELSE DigitsOf(n \div 10) \o << DigitChars[(n % 10) + 1] >>

RECURSIVE NumberOf(_)
\* the value of a non-empty string of decimal digits
NumberOf(s) ==
  IF Len(s) = 1 THEN DigitValue(s[1])
  ELSE 10 * NumberOf(SubSeq(s, 1, Len(s) - 1)) + DigitValue(s[Len(s)])

\* the spelling of the field names the code compares header texts with
CharsOf ==
  ( "id" :> <<"i","d">> ) @@
  ( "Date" :> <<"D","a","t","e">> ) @@
  ( "Shipment" :> <<"S","h","i","p","m","e","n","t">> ) @@
  ( "Mode" :> <<"M","o","d","e">> ) @@
  ( "Product" :> <<"P","r","o","d","u","c","t">> ) @@
  ( "SI QTY" :> <<"S","I"," ","Q","T","Y">> ) @@
  ( "QTY" :> <<"Q","T","Y">> ) @@
  ( "110x110x115 QTY" :> <<"1","1","0","x","1","1","0","x","1","1","5"," ","Q","T","Y">> ) @@
  ( "110x110x90 QTY" :> <<"1","1","0","x","1","1","0","x","9","0"," ","Q","T","Y">> ) @@
  ( "110x110x65 QTY" :> <<"1","1","0","x","1","1","0","x","6","5"," ","Q","T","Y">> ) @@
  ( "80X120X115 QTY" :> <<"8","0","X","1","2","0","X","1","1","5"," ","Q","T","Y">> ) @@
  ( "80X120X90 QTY" :> <<"8","0","X","1","2","0","X","9","0"," ","Q","T","Y">> ) @@
  ( "80X120X65 QTY" :> <<"8","0","X","1","2","0","X","6","5"," ","Q","T","Y">> ) @@
  ( "42X46X68 QTY" :> <<"4","2","X","4","6","X","6","8"," ","Q","T","Y">> ) @@
  ( "47X66X68 QTY" :> <<"4","7","X","6","6","X","6","8"," ","Q","T","Y">> ) @@
  ( "53X53X58 QTY" :> <<"5","3","X","5","3","X","5","8"," ","Q","T","Y">> ) @@
  ( "57X64X84 QTY" :> <<"5","7","X","6","4","X","8","4"," ","Q","T","Y">> ) @@
  ( "68X74X86 QTY" :> <<"6","8","X","7","4","X","8","6"," ","Q","T","Y">> ) @@
  ( "70X100X90 QTY" :> <<"7","0","X","1","0","0","X","9","0"," ","Q","T","Y">> ) @@
  ( "27X27X22 QTY" :> <<"2","7","X","2","7","X","2","2"," ","Q","T","Y">> ) @@
  ( "53X53X19 QTY" :> <<"5","3","X","5","3","X","1","9"," ","Q","T","Y">> ) @@
  ( "WARP QTY" :> <<"W","A","R","P"," ","Q","T","Y">> ) @@
  ( "UNIT QTY" :> <<"U","N","I","T"," ","Q","T","Y">> ) @@
  ( "RETURNABLE QTY" :> <<"R","E","T","U","R","N","A","B","L","E"," ","Q","T","Y">> )

(***************************************************************************)
(* The date helpers (utils.ts, DataTable.tsx)                              *)
(***************************************************************************)
\* element i of an array, undefined when the array is shorter
Part(parts, i) == IF i <= Len(parts) THEN parts[i] ELSE <<"u","n","d","e","f","i","n","e","d">>

\* variant: month before day
formatDisplayDate_MonthFirst(isoDate) ==
  IF isoDate = << >> THEN << >>
  ELSE LET parts == Split(isoDate, "-")
       IN Part(parts, 2) \o << "/" >> \o Part(parts, 3) \o << "/" >> \o Part(parts, 1)

\* formatDisplayDate: ISO yyyy-mm-dd to dd/mm/yyyy
formatDisplayDate(isoDate) ==
  IF isoDate = << >> THEN << >>
  ELSE LET parts == Split(isoDate, "-")
       IN Part(parts, 3) \o << "/" >> \o Part(parts, 2) \o << "/" >> \o Part(parts, 1)

\* parseDisplayDate: dd/mm/yyyy to ISO yyyy-mm-dd
parseDisplayDate(displayDate) ==
  IF displayDate = << >> THEN << >>
  ELSE LET parts == Split(displayDate, "/")
       IN IF Len(parts) = 3
          THEN parts[3] \o << "-" >> \o parts[2] \o << "-" >> \o parts[1]
          ELSE displayDate

\* formatDateForDisplay (DataTable): ISO yyyy-mm-dd to dd-mm-yyyy
formatDateForDisplay(dateStr) ==
  IF dateStr = << >> THEN << >>
  ELSE LET parts == Split(dateStr, "-")
       IN IF /\ Len(parts) = 3
             /\ Len(parts[1]) = 4 /\ AllDigits(parts[1])
             /\ Len(parts[2]) = 2 /\ AllDigits(parts[2])
             /\ Len(parts[3]) = 2 /\ AllDigits(parts[3])
          THEN parts[3] \o << "-" >> \o parts[2] \o << "-" >> \o parts[1]
          ELSE dateStr

(***************************************************************************)
(* parseCSV (utils.ts)                                                     *)
(***************************************************************************)
\* /^(\d{1,2})\/(\d{1,2})\/(\d{4})$/
MatchesDDMMYYYY(val) ==
  LET parts == Split(val, "/")
  IN /\ Len(parts) = 3
     /\ Len(parts[1]) \in 1..2 /\ AllDigits(parts[1])
     /\ Len(parts[2]) \in 1..2 /\ AllDigits(parts[2])
     /\ Len(parts[3]) = 4 /\ AllDigits(parts[3])

\* variant: the first number taken as the month
DateValue_MonthFirst(cell) ==
  IF cell # << >> /\ MatchesDDMMYYYY(cell[1])
  THEN LET parts == Split(cell[1], "/")
       IN parts[3] \o << "-" >> \o PadStart2(parts[1]) \o << "-" >> \o PadStart2(parts[2])
  ELSE IF cell = << >> THEN << >> ELSE cell[1]

\* the value stored for a header named Date; cell is << val >>, or << >> when
\* the line has no field at the header's position
DateValue(cell) ==
  IF cell # << >> /\ MatchesDDMMYYYY(cell[1])
  THEN LET parts == Split(cell[1], "/")
       IN parts[3] \o << "-" >> \o PadStart2(parts[2]) \o << "-" >> \o PadStart2(parts[1])
  ELSE IF cell = << >> THEN << >> ELSE cell[1]

\* parseFloat on a text without '.', 'e' or 'Infinity': leading white space,
\* an optional sign, then the longest run of digits; NaN without a digit
ParseFloat(cell) ==
  IF cell = << >> THEN NaN
  ELSE LET s == Trim(cell[1])
           signed == s # << >> /\ s[1] \in { "-", "+" }
           body == IF signed THEN Tail(s) ELSE s
           run == { n \in 0..Len(body) : AllDigits(SubSeq(body, 1, n)) }
           n == CHOOSE m \in run : \A k \in run : k <= m
       IN IF n = 0 THEN NaN
          ELSE IF signed /\ s[1] = "-" THEN Num(0 - NumberOf(SubSeq(body, 1, n)))
          ELSE Num(NumberOf(SubSeq(body, 1, n)))

\* isNaN(num) ? 0 : num
NumericValue(cell) ==
  LET num == ParseFloat(cell)
  IN IF IsNaN(num) THEN 0 ELSE num[1]

\* header.includes("QTY") || header === "SI QTY" || PACKAGE_COLUMNS.includes(header)
IsNumericHeader(header) ==
  \/ Includes(header, CharsOf["QTY"])
  \/ header = CharsOf["SI QTY"]
  \/ \E i \in 1..Len(PACKAGE_COLUMNS) : CharsOf[PACKAGE_COLUMNS[i]] = header

RECURSIVE Tokenize(_, _, _, _, _)
\* the character loop of parseCSV from position i on
Tokenize(line, i, values, current, inQuotes) ==
  IF i > Len(line) THEN Append(values, Trim(current))
  ELSE IF line[i] = Quote
       THEN Tokenize(line, i + 1, values, current, ~inQuotes)
  ELSE IF line[i] = Comma /\ ~inQuotes
       THEN Tokenize(line, i + 1, Append(values, Trim(current)), << >>, inQuotes)
  ELSE Tokenize(line, i + 1, values, Append(current, line[i]), inQuotes)

\* values[i]?.replace(/"/g, ''): << val >>, or << >> for undefined
CellAt(values, i) ==
  IF i <= Len(values) THEN << StripQuotes(values[i]) >> ELSE << >>

\* the value stored under header for the cell at its position
FieldValue(header, cell) ==
  IF header = CharsOf["Date"] THEN DateValue(cell)
  ELSE IF IsNumericHeader(header) THEN NumericValue(cell)
  ELSE IF cell = << >> THEN << >> ELSE cell[1]

RECURSIVE SetFields_SkipsMissing(_, _, _, _)
\* variant: a header beyond the line's fields is left out of the record
SetFields_SkipsMissing(record, headers, values, i) ==
  IF i > Len(headers) \/ i > Len(values) THEN record
  ELSE SetFields_SkipsMissing(( headers[i] :> FieldValue(headers[i], CellAt(values, i)) ) @@ record,
                              headers, values, i + 1)

RECURSIVE SetFields(_, _, _, _)
\* headers.forEach from header i on; a later header of the same name overwrites
SetFields(record, headers, values, i) ==
  IF i > Len(headers) THEN record
  ELSE SetFields(( headers[i] :> FieldValue(headers[i], CellAt(values, i)) ) @@ record,
                 headers, values, i + 1)

\* `row-${index}`
RowId(index) == <<"r","o","w","-">> \o DigitsOf(index)

\* the record of one data line
ParseLine(headers, line, index) ==
  SetFields(( CharsOf["id"] :> RowId(index) ), headers,
            Tokenize(line, 1, << >>, << >>, FALSE), 1)

\* text.split('\n').filter(line => line.trim() !== '')
LinesOf(t) == SelectSeq(Split(t, Newline), LAMBDA line : Trim(line) # << >>)

\* lines[0].split(',').map(h => h.trim().replace(/"/g, ''))
HeadersOf(line) ==
  LET cells == Split(line, Comma)
  IN [ i \in 1..Len(cells) |-> StripQuotes(Trim(cells[i])) ]

\* parseCSV: what it returns, or that it threw (lines[0] is undefined when no
\* line is left)
parseCSV(t) ==
  LET lines == LinesOf(t)
  IN IF lines = << >> THEN [ threw |-> TRUE, records |-> << >> ]
     ELSE [ threw |-> FALSE,
            records |-> [ k \in 1..(Len(lines) - 1) |->
                            ParseLine(HeadersOf(lines[1]), lines[k + 1], k - 1) ] ]

(***************************************************************************)
(* exportToCSV (App.tsx)                                                   *)
(***************************************************************************)
baseHeaders == << "Date", "Shipment", "Mode", "Product", "SI QTY", "QTY" >>

calculatedHeaders ==
  << "Total Packages", "Standard Total", "Boxes Total", "Warp Total",
     "Returnable Total", "Ratio Standard", "Ratio Boxes", "Ratio Warp",
     "Ratio Returnable" >>

standardCols ==
  << "110x110x115 QTY", "110x110x90 QTY", "110x110x65 QTY",
     "80X120X115 QTY", "80X120X90 QTY", "80X120X65 QTY" >>

\* variant: a column of the catalog missing from the export's own list
boxesCols_Stale ==
  << "42X46X68 QTY", "47X66X68 QTY", "53X53X58 QTY", "57X64X84 QTY",
     "68X74X86 QTY", "70X100X90 QTY", "53X53X19 QTY" >>

boxesCols ==
  << "42X46X68 QTY", "47X66X68 QTY", "53X53X58 QTY", "57X64X84 QTY",
     "68X74X86 QTY", "70X100X90 QTY", "27X27X22 QTY", "53X53X19 QTY" >>

warpCols == << "WARP QTY", "UNIT QTY" >>

returnableCols == << "RETURNABLE QTY" >>

ratioValues ==
  [ k \in { "110x110x115 QTY", "110x110x90 QTY", "110x110x65 QTY",
            "80X120X115 QTY", "80X120X90 QTY", "80X120X65 QTY" } |-> 1 ] @@
  ( "RETURNABLE QTY" :> 2 ) @@
  [ k \in { "42X46X68 QTY", "47X66X68 QTY", "53X53X58 QTY", "57X64X84 QTY",
            "68X74X86 QTY", "70X100X90 QTY" } |-> 3 ] @@
  [ k \in { "27X27X22 QTY", "53X53X19 QTY" } |-> 30 ] @@
  ( "WARP QTY" :> 10 ) @@ ( "UNIT QTY" :> 1 )

allHeaders == baseHeaders \o calculatedHeaders

\* the characters of the strings that name headers and fill text fields
TextOf ==
  CharsOf @@
  ( "Total Packages" :> <<"T","o","t","a","l"," ","P","a","c","k","a","g","e","s">> ) @@
  ( "Standard Total" :> <<"S","t","a","n","d","a","r","d"," ","T","o","t","a","l">> ) @@
  ( "Boxes Total" :> <<"B","o","x","e","s"," ","T","o","t","a","l">> ) @@
  ( "Warp Total" :> <<"W","a","r","p"," ","T","o","t","a","l">> ) @@
  ( "Returnable Total" :> <<"R","e","t","u","r","n","a","b","l","e"," ","T","o","t","a","l">> ) @@
  ( "Ratio Standard" :> <<"R","a","t","i","o"," ","S","t","a","n","d","a","r","d">> ) @@
  ( "Ratio Boxes" :> <<"R","a","t","i","o"," ","B","o","x","e","s">> ) @@
  ( "Ratio Warp" :> <<"R","a","t","i","o"," ","W","a","r","p">> ) @@
  ( "Ratio Returnable" :> <<"R","a","t","i","o"," ","R","e","t","u","r","n","a","b","l","e">> ) @@
  ( "2024-12-25" :> <<"2","0","2","4","-","1","2","-","2","5">> ) @@
  ( "Toyota" :> <<"T","o","y","o","t","a">> ) @@
  ( "Honda, Ltd" :> <<"H","o","n","d","a",","," ","L","t","d">> ) @@
  ( "SEA" :> <<"S","E","A">> ) @@
  ( "Batteries" :> <<"B","a","t","t","e","r","i","e","s">> ) @@
  ( "12\" rack" :> <<"1","2","\""," ","r","a","c","k">> ) @@
  ( "\"\"" :> <<"\"","\"">> )

RECURSIVE JoinWith(_, _)
\* Array.prototype.join
JoinWith(parts, sep) ==
  IF parts = << >> THEN << >>
  ELSE IF Len(parts) = 1 THEN parts[1]
  ELSE parts[1] \o << sep >> \o JoinWith(Tail(parts), sep)

\* Number(row[col]) || 0
ExportCount(row, col) == IF Has(row, col) THEN row[col] ELSE 0

RECURSIVE GroupTotal(_, _, _)
\* cols.reduce((sum, col) => sum + (Number(row[col]) || 0), 0) over the first
\* n columns
GroupTotal(row, cols, n) ==
  IF n = 0 THEN 0 ELSE GroupTotal(row, cols, n - 1) + ExportCount(row, cols[n])

\* ratioValues[col] || 1
ExportRatio(col) ==
  IF col \in DOMAIN ratioValues /\ ratioValues[col] # 0 THEN ratioValues[col] ELSE 1

RECURSIVE calcGroupRatio(_, _, _)
\* sum + (qty / ratio) over the first n columns
calcGroupRatio(row, cols, n) ==
  IF n = 0 THEN Frac(0, 1)
  ELSE FracAdd(calcGroupRatio(row, cols, n - 1),
               Frac(ExportCount(row, cols[n]), ExportRatio(cols[n])))

\* String(n) for an integer
IntegerText(n) == IF n < 0 THEN << "-" >> \o DigitsOf(0 - n) ELSE DigitsOf(n)

\* String(row[field]) for a text field, String(undefined) when it is missing
TextField(row, field) ==
  IF Has(row, field) THEN TextOf[row[field]] ELSE <<"u","n","d","e","f","i","n","e","d">>

\* String(row[field]) for a numeric field
NumberField(row, field) ==
  IF Has(row, field) THEN IntegerText(row[field]) ELSE <<"u","n","d","e","f","i","n","e","d">>

\* x.toFixed(2) for x >= 0: the nearest number of hundredths, the larger one
\* of two equally near, written with two decimals
ToFixed2(x) ==
  LET h == (200 * x.num + x.den) \div (2 * x.den)
  IN DigitsOf(h \div 100) \o << ".", DigitChars[((h % 100) \div 10) + 1],
                                 DigitChars[(h % 10) + 1] >>

\* variant: quote characters are left as they are
Escaped_NotDoubled(s) == s

RECURSIVE Escaped(_)
\* replace(/"/g, '""')
Escaped(s) ==
  IF s = << >> THEN << >>
  ELSE IF s[1] = Quote THEN << Quote, Quote >> \o Escaped(Tail(s))
  ELSE << s[1] >> \o Escaped(Tail(s))

\* the values of one row, as String(val) makes them
ExportValues(row) ==
  LET standardTotal == GroupTotal(row, standardCols, Len(standardCols))
      boxesTotal == GroupTotal(row, boxesCols, Len(boxesCols))
      warpTotal == GroupTotal(row, warpCols, Len(warpCols))
      returnableTotal == GroupTotal(row, returnableCols, Len(returnableCols))
      totalPackages == standardTotal + boxesTotal + warpTotal + returnableTotal
      ratioStandard == calcGroupRatio(row, standardCols, Len(standardCols))
      ratioBoxes == calcGroupRatio(row, boxesCols, Len(boxesCols))
      ratioWarp == calcGroupRatio(row, warpCols, Len(warpCols))
      ratioReturnable == calcGroupRatio(row, returnableCols, Len(returnableCols))
  IN << TextField(row, "Date"), TextField(row, "Shipment"), TextField(row, "Mode"),
        TextField(row, "Product"), NumberField(row, "SI QTY"), NumberField(row, "QTY"),
        IntegerText(totalPackages), IntegerText(standardTotal), IntegerText(boxesTotal),
        IntegerText(warpTotal), IntegerText(returnableTotal),
        ToFixed2(ratioStandard), ToFixed2(ratioBoxes), ToFixed2(ratioWarp),
        ToFixed2(ratioReturnable) >>

\* values.map(val => `"${escaped}"`).join(',')
ExportLine(row) ==
  LET values == ExportValues(row)
  IN JoinWith([ i \in 1..Len(values) |-> << Quote >> \o Escaped(values[i]) \o << Quote >> ],
              Comma)

\* exportToCSV: nothing when the filtered list is empty, else the text of the
\* file handed to the browser for download
exportToCSV(filteredData) ==
  IF Len(filteredData) = 0 THEN [ downloaded |-> FALSE, csvRows |-> << >> ]
  ELSE [ downloaded |-> TRUE,
         csvRows |->
           JoinWith(<< JoinWith([ i \in 1..Len(allHeaders) |-> TextOf[allHeaders[i]] ], Comma) >>
                      \o [ k \in 1..Len(filteredData) |-> ExportLine(filteredData[k]) ],
                    Newline) ]

(***************************************************************************)
(* Input records                                                           *)
(***************************************************************************)
MaxRecs == 3

MaxQty == 1

MaxModeRecs == 4

MaxPkgRecs == 2

MaxCount == 2

\* customer names: the empty string, an array-index name, two ordinary names
Customers == { "", "7", "Toyota", "Honda" }

Modes == { "", "SEA", "AIR" }

\* one catalog key of every ratio (1, 2, 3, 30, 10) and of every group
InputKeys ==
  { "110x110x115 QTY", "RETURNABLE QTY", "42X46X68 QTY", "27X27X22 QTY",
    "WARP QTY", "UNIT QTY" }

\* package counts: small ones and the counts of the documented examples
CountValues == (0..MaxCount) \cup { 4, 90 }

\* a record without QTY and without package columns
BaseRow(customer, mode) ==
  ( "Date" :> "2024-12-25" ) @@ ( "Shipment" :> customer ) @@
  ( "Mode" :> mode ) @@ ( "Product" :> "Batteries" ) @@ ( "SI QTY" :> 1 )

CustomerRows ==
  { BaseRow(c, "SEA") : c \in Customers }
    \cup { BaseRow(c, "SEA") @@ ( "QTY" :> q ) : c \in Customers, q \in 0..MaxQty }

ModeRows == { BaseRow("Toyota", m) @@ ( "QTY" :> 1 ) : m \in Modes }

PackageRows ==
  { BaseRow("Toyota", "SEA") @@ ( "QTY" :> 1 ) }
    \cup { BaseRow("Toyota", "SEA") @@ ( "QTY" :> 1 ) @@ ( k :> c ) :
             k \in InputKeys, c \in CountValues }

MaxTopRecs == 7

MaxTopQty == 1

\* customer of the p-th record of a ranking input: a new customer each time
TopNames ==
  << "Toyota", "Honda", "7", "Nissan", "Sony", "Panasonic", "10", "Isuzu" >>

\* the p-th record of a ranking input: a record of the p-th customer with a
\* QTY in 0..MaxTopQty; the second record may instead be one more record of
\* the first customer
TopRowsAt(p) ==
  { BaseRow(TopNames[p], "SEA") @@ ( "QTY" :> q ) : q \in 0..MaxTopQty }
    \cup (IF p = 2 THEN { BaseRow(TopNames[1], "SEA") @@ ( "QTY" :> 1 ) } ELSE {})

RECURSIVE TopListsOfLen(_)
TopListsOfLen(n) ==
  IF n = 0 THEN { << >> }
  ELSE { Append(l, r) : l \in TopListsOfLen(n - 1), r \in TopRowsAt(n) }

TopLists == UNION { TopListsOfLen(n) : n \in 0..MaxTopRecs }

MaxDateRecs == 2

\* Date strings: two ISO dates, a display-form text of the first one (which
\* new Date() does not parse)
Dates == { "2024-12-26", "2024-12-25", "25/12/2024" }

\* package columns of a timeline input record
DatePackages ==
  { << >>, ( "WARP QTY" :> 1 ), ( "110x110x115 QTY" :> 2 ) }

TimelineRows ==
  { ( "Date" :> d ) @@ ( "Shipment" :> "Toyota" ) @@ ( "Mode" :> "SEA" ) @@
    ( "Product" :> "Batteries" ) @@ ( "SI QTY" :> 1 ) @@ ( "QTY" :> q ) @@ pk :
      d \in Dates, q \in 0..MaxQty, pk \in DatePackages }

Lists(rows, maxLen) == UNION { [ 1..n -> rows ] : n \in 0..maxLen }

(***************************************************************************)
(* Input texts of parseCSV: a header line and up to MaxCsvLines further    *)
(* lines, joined by line breaks; and the two texts without any line.       *)
(***************************************************************************)
MaxCsvLines == 2

HeaderLines ==
  { <<"D","a","t","e",",","S","h","i","p","m","e","n","t",",","Q","T","Y">>,
    <<"\"","D","a","t","e","\"",","," ","S","h","i","p","m","e","n","t"," ",",","S","I"," ","Q","T","Y","\r">>,
    <<"i","d",",","S","h","i","p","m","e","n","t",",","W","A","R","P"," ","Q","T","Y">> }

DataLines ==
  { <<"2","5","/","1","2","/","2","0","2","4",",","T","o","y","o","t","a",",","5">>,
    <<"5","/","1","/","2","0","2","4",",","\"","H","o","n","d","a",","," ","L","t","d","\"",",","-","5">>,
    <<"2","0","2","4","-","1","2","-","2","5",",","\"","s","a","y"," ","\"","\"","h","i","\"","\"","\"",",","a","b","c">>,
    <<"7","/","8","/","2","0","2","4">>,
    <<" ","1","/","2","/","2","0","2","4"," ",","," ","S","o","n","y"," ",","," ","7"," ","\r">>,
    <<"3","1","-","1","2","-","2","0","2","4",",",",","1","2","a","b","c">>,
    <<"9","9","/","9","9","/","2","0","2","4",",","I","s","u","z","u",",","3",",","e","x","t","r","a">>,
    <<" "," ">>,
    << >> }

RECURSIVE JoinLines(_)
JoinLines(lines) ==
  IF Len(lines) = 1 THEN lines[1]
  ELSE lines[1] \o << Newline >> \o JoinLines(Tail(lines))

CsvTexts ==
  { JoinLines(<< h >> \o ls) : h \in HeaderLines, ls \in Lists(DataLines, MaxCsvLines) }
    \cup { << >>, <<" ","\n">> }

(***************************************************************************)
(* Date texts handed to the decoder: day/month/year as typed, with and     *)
(* without leading zeros                                                   *)
(***************************************************************************)
DisplayDates ==
  { d \o << "/" >> \o m \o << "/" >> \o y :
      d \in { <<"1">>, <<"0","1">>, <<"5">>, <<"0","9">>, <<"2","5">>, <<"3","1">> },
      m \in { <<"1">>, <<"0","1">>, <<"2">>, <<"1","1">>, <<"1","2">> },
      y \in { <<"2","0","2","4">>, <<"1","9","9","9">> } }

(***************************************************************************)
(* Filtered lists handed to exportToCSV                                    *)
(***************************************************************************)
MaxExportRecs == 2

ExportRows ==
  { BaseRow("Toyota", "SEA"),
    BaseRow("Honda, Ltd", "SEA") @@ ( "QTY" :> 1 ),
    ( "Product" :> "12\" rack" ) @@ BaseRow("Toyota", "SEA") @@ ( "QTY" :> 0 ),
    ( "Product" :> "\"\"" ) @@ BaseRow("Toyota", "SEA") @@ ( "QTY" :> 12 ),
    BaseRow("Toyota", "SEA") @@ ( "QTY" :> 1 ) @@ ( "27X27X22 QTY" :> 1 ) @@ ( "42X46X68 QTY" :> 2 ) }
    \cup { BaseRow("Toyota", "SEA") @@ ( "QTY" :> 1 ) @@ ( k :> c ) :
             k \in { "110x110x115 QTY", "27X27X22 QTY", "WARP QTY", "RETURNABLE QTY" },
             c \in 1..MaxCount }

(***************************************************************************)
(* State machine: a record list is handed to aggregateData once            *)
(***************************************************************************)
Returned == result # << >>

Res == result[1]

Aggregate ==
  /\ ~Returned
  /\ \E r \in aggregateData(data) : result' = << r >>
  /\ UNCHANGED << data, text, parsed, display, iso, shown, exported,
               app, store, upload, table, modal >>

Next == Aggregate

\* nothing is handed to the CSV decoder, the date helpers or the export, and
\* no interactive part is running
OnlyAggregation ==
  /\ text = << >> /\ parsed = << >>
  /\ display = << >> /\ iso = << >> /\ shown = << >>
  /\ exported = << >>
  /\ app = << >> /\ store = << >> /\ upload = << >> /\ table = << >> /\ modal = << >>

InitCustomers == data \in Lists(CustomerRows, MaxRecs) /\ result = << >> /\ OnlyAggregation

InitModes == data \in Lists(ModeRows, MaxModeRecs) /\ result = << >> /\ OnlyAggregation

InitPackages == data \in Lists(PackageRows, MaxPkgRecs) /\ result = << >> /\ OnlyAggregation

InitTopCustomers == data \in TopLists /\ result = << >> /\ OnlyAggregation

SpecTopCustomers == InitTopCustomers /\ [][Next]_vars

InitTimeline == data \in Lists(TimelineRows, MaxDateRecs) /\ result = << >> /\ OnlyAggregation

SpecTimeline == InitTimeline /\ [][Next]_vars

SpecCustomers == InitCustomers /\ [][Next]_vars

SpecModes == InitModes /\ [][Next]_vars

SpecPackages == InitPackages /\ [][Next]_vars

(***************************************************************************)
(* State machine: a text is handed to parseCSV once                        *)
(***************************************************************************)
Parsed == parsed # << >>

Records == parsed[1].records

ParseCSV ==
  /\ ~Parsed
  /\ parsed' = << parseCSV(text) >>
  /\ UNCHANGED << data, result, text, display, iso, shown, exported,
               app, store, upload, table, modal >>

NextCsv == ParseCSV

InitCsv ==
  /\ text \in CsvTexts /\ parsed = << >>
  /\ data = << >> /\ result = << >>
  /\ display = << >> /\ iso = << >> /\ shown = << >>
  /\ exported = << >>
  /\ app = << >> /\ store = << >> /\ upload = << >> /\ table = << >> /\ modal = << >>

SpecCsv == InitCsv /\ [][NextCsv]_vars

(***************************************************************************)
(* State machine: a date text is decoded as a field of the Date column,    *)
(* and the stored value is displayed again by the form helper              *)
(* (formatDisplayDate), by the table (formatDateForDisplay), and the form  *)
(* text is parsed back (parseDisplayDate)                                  *)
(***************************************************************************)
Decoded == iso # << >>

Iso == iso[1]

Decode ==
  /\ ~Decoded
  /\ iso' = << DateValue(<< display >>) >>
  /\ UNCHANGED << data, result, text, parsed, display, shown, exported,
               app, store, upload, table, modal >>

ShowInForm ==
  /\ Decoded /\ ~Has(shown, "form")
  /\ shown' = shown @@ ( "form" :> formatDisplayDate(Iso) )
  /\ UNCHANGED << data, result, text, parsed, display, iso, exported,
               app, store, upload, table, modal >>

ShowInTable ==
  /\ Decoded /\ ~Has(shown, "table")
  /\ shown' = shown @@ ( "table" :> formatDateForDisplay(Iso) )
  /\ UNCHANGED << data, result, text, parsed, display, iso, exported,
               app, store, upload, table, modal >>

ParseBack ==
  /\ Has(shown, "form") /\ ~Has(shown, "back")
  /\ shown' = shown @@ ( "back" :> parseDisplayDate(shown["form"]) )
  /\ UNCHANGED << data, result, text, parsed, display, iso, exported,
               app, store, upload, table, modal >>

NextDates == Decode \/ ShowInForm \/ ShowInTable \/ ParseBack

InitDates ==
  /\ display \in DisplayDates /\ iso = << >> /\ shown = << >>
  /\ data = << >> /\ result = << >>
  /\ text = << >> /\ parsed = << >>
  /\ exported = << >>
  /\ app = << >> /\ store = << >> /\ upload = << >> /\ table = << >> /\ modal = << >>

SpecDates == InitDates /\ [][NextDates]_vars

(***************************************************************************)
(* State machine: the filtered list is exported once                       *)
(***************************************************************************)
Exported == exported # << >>

Csv == exported[1].csvRows

Export ==
  /\ ~Exported
  /\ exported' = << exportToCSV(data) >>
  /\ UNCHANGED << data, result, text, parsed, display, iso, shown,
               app, store, upload, table, modal >>

NextExport == Export

InitExport ==
  /\ data \in Lists(ExportRows, MaxExportRecs) /\ exported = << >>
  /\ result = << >>
  /\ text = << >> /\ parsed = << >>
  /\ display = << >> /\ iso = << >> /\ shown = << >>
  /\ app = << >> /\ store = << >> /\ upload = << >> /\ table = << >> /\ modal = << >>

SpecExport == InitExport /\ [][NextExport]_vars

(***************************************************************************)
(* Sums of the record list, stated over sets                               *)
(***************************************************************************)
RECURSIVE SumOver(_, _)
\* the sum of f[x] over the finite set S
SumOver(S, f) ==
  IF S = {} THEN 0
  ELSE LET x == CHOOSE y \in S : TRUE
       IN f[x] + SumOver(S \ { x }, f)

Rows == 1..Len(data)

\* QTY of row i, a missing QTY counting as 0
QtyOf(i) == IF "QTY" \in DOMAIN data[i] THEN data[i]["QTY"] ELSE 0

\* C1: totalItems is the sum of the QTY of every record (missing = 0), and is
\* >= 0 when every QTY is >= 0
C1_TotalItems ==
  Returned =>
    /\ Res.stats.totalItems = SumOver(Rows, [ i \in Rows |-> QtyOf(i) ])
    /\ (\A i \in Rows : QtyOf(i) >= 0) => Res.stats.totalItems >= 0

\* a list of three records, one of them without QTY, has been aggregated
C1_Witness ==
  /\ Returned
  /\ Len(data) = 3
  /\ \E i \in Rows : "QTY" \notin DOMAIN data[i]
  /\ Res.stats.totalItems = 2

(***************************************************************************)
(* Customers and modes                                                     *)
(***************************************************************************)
AllHaveQty == \A i \in Rows : "QTY" \in DOMAIN data[i]

CustomersIn == { data[i]["Shipment"] : i \in Rows }

RowsOfCustomer(c) == { i \in Rows : data[i]["Shipment"] = c }

\* the summed QTY of customer c
CustomerQty(c) == SumOver(RowsOfCustomer(c), [ i \in Rows |-> QtyOf(i) ])

\* the index of the first record of customer c
FirstRowOf(c) == CHOOSE i \in RowsOfCustomer(c) : \A j \in RowsOfCustomer(c) : i <= j

\* the customers whose summed QTY is maximal
TiedCustomers ==
  { c \in CustomersIn : \A o \in CustomersIn : CustomerQty(c) >= CustomerQty(o) }

\* C3: when one customer's summed QTY strictly exceeds every other customer's,
\* topCustomer is that customer's identifier, whatever string it is (here
\* over lists in which every record has a QTY)
C3_TopCustomer ==
  (Returned /\ AllHaveQty) =>
    \A c \in CustomersIn :
      (\A o \in CustomersIn \ { c } : CustomerQty(c) > CustomerQty(o))
        => Res.stats.topCustomer = c

\* C4: when two or more customers tie for the maximal summed QTY, topCustomer
\* is the tied customer whose first record is earliest in the list (here over
\* lists without the empty customer name, which C3 already covers)
C4_TieFirstEncountered ==
  (Returned /\ AllHaveQty /\ "" \notin CustomersIn
     /\ Cardinality(TiedCustomers) >= 2) =>
    \E c \in TiedCustomers :
      /\ \A o \in TiedCustomers : FirstRowOf(c) <= FirstRowOf(o)
      /\ Res.stats.topCustomer = c

ModesIn == { data[i]["Mode"] : i \in Rows }

\* the number of records whose Mode is m
ModeRecords(m) == Cardinality({ i \in Rows : data[i]["Mode"] = m })

\* C5: for a non-empty list topMode is a Mode value with a maximal number of
\* records; for the empty list it is "N/A"
C5_TopMode ==
  Returned =>
    IF data = << >>
      THEN Res.stats.topMode = "N/A"
      ELSE /\ Res.stats.topMode \in ModesIn
           /\ \A m \in ModesIn : ModeRecords(Res.stats.topMode) >= ModeRecords(m)

(***************************************************************************)
(* Packages, groups and ratios                                             *)
(***************************************************************************)
CatalogKeys == SeqToSet(PACKAGE_COLUMNS)

\* the count of catalog key k in row i, a missing value counting as 0
CountOf(i, k) == IF k \in DOMAIN data[i] THEN data[i][k] ELSE 0

\* the total count of the keys in K over all records
TotalOf(K) ==
  SumOver(Rows \X K, [ p \in Rows \X K |-> CountOf(p[1], p[2]) ])

RowWith(k, c) == BaseRow("Toyota", "SEA") @@ ( "QTY" :> 1 ) @@ ( k :> c )

\* C2: totalPackages is the sum, over all records and all catalog keys, of the
\* record's count for the key, a missing value counting as 0
C2_TotalPackages ==
  Returned => Res.stats.totalPackages = TotalOf(CatalogKeys)

\* two records, one without any package column, give a positive total
C2_Witness ==
  /\ Returned
  /\ Len(data) = 2
  /\ \E i \in Rows : DOMAIN data[i] \cap CatalogKeys = {}
  /\ Res.stats.totalPackages = 2

\* C6: zero records give totalItems = 0, totalPackages = 0, topCustomer "N/A"
\* and empty timeline, package, customer and mode series; the call returns
C6_EmptyInput ==
  /\ (data = << >> /\ ~Returned) => ENABLED Aggregate
  /\ (data = << >> /\ Returned) =>
       /\ Res.stats.totalItems = 0
       /\ Res.stats.totalPackages = 0
       /\ Res.stats.topCustomer = "N/A"
       /\ Res.timelineData = << >>
       /\ Res.packageData = << >>
       /\ Res.shipmentChartData = << >>
       /\ Res.modeChartData = << >>

\* the empty list has been aggregated
C6_Witness == data = << >> /\ Returned

RECURSIVE Lcm(_)
\* the least common multiple of a finite set of positive integers
Lcm(S) ==
  IF S = {} THEN 1
  ELSE LET x == CHOOSE y \in S : TRUE
           l == Lcm(S \ { x })
       IN (x * l) \div Gcd(x, l)

RatioLcm == Lcm({ PACKAGE_RATIOS[k] : k \in CatalogKeys })

GroupKeys(g) == SeqToSet(PACKAGE_GROUPS[g])

\* the sum over all records and the keys of group g of count / ratio, as a
\* multiple of 1 / RatioLcm
CapacityUnits(g) ==
  SumOver(Rows \X GroupKeys(g),
          [ p \in Rows \X GroupKeys(g) |->
              CountOf(p[1], p[2]) * (RatioLcm \div PACKAGE_RATIOS[p[2]]) ])

\* C7: ratioStats[group].maxCapacity is the sum over all records and the
\* group's keys of count / ratio; count 90 at ratio 30 contributes exactly 3
\* and two records with RETURNABLE = 4 give 4
C7_MaxCapacity ==
  Returned =>
    /\ \A g \in SeqToSet(GroupNames) :
         Res.ratioStats[g].maxCapacity.num * RatioLcm
           = Res.ratioStats[g].maxCapacity.den * CapacityUnits(g)
    /\ data = << RowWith("27X27X22 QTY", 90) >>
         => Res.ratioStats["Boxes Package"].maxCapacity = [ num |-> 3, den |-> 1 ]
    /\ data = << RowWith("RETURNABLE QTY", 4), RowWith("RETURNABLE QTY", 4) >>
         => Res.ratioStats["Returnable Package"].maxCapacity = [ num |-> 4, den |-> 1 ]

\* two records whose keys have ratios 3 and 30: 1/3 + 1/30 = 11/30
C7_Witness ==
  /\ Returned
  /\ data = << RowWith("42X46X68 QTY", 1), RowWith("27X27X22 QTY", 1) >>
  /\ Res.ratioStats["Boxes Package"].maxCapacity = [ num |-> 11, den |-> 30 ]

\* C8: groupStats[group] is the sum of the counts of the group's keys over all
\* records and ratioStats[group].used equals it; two records with
\* RETURNABLE = 4 give 8
C8_GroupStats ==
  Returned =>
    /\ \A g \in SeqToSet(GroupNames) :
         /\ Res.groupStats[g] = TotalOf(GroupKeys(g))
         /\ Res.ratioStats[g].used = Res.groupStats[g]
    /\ data = << RowWith("RETURNABLE QTY", 4), RowWith("RETURNABLE QTY", 4) >>
         => Res.groupStats["Returnable Package"] = 8

\* the two RETURNABLE = 4 records have been aggregated
C8_Witness ==
  /\ Returned
  /\ data = << RowWith("RETURNABLE QTY", 4), RowWith("RETURNABLE QTY", 4) >>
  /\ Res.groupStats["Returnable Package"] = 8
  /\ Res.ratioStats["Returnable Package"].used = 8

\* C9: every catalog key is in exactly one group (once), every group member is
\* a catalog key, and so the groupStats of all groups sum to totalPackages
C9_GroupsPartitionCatalog ==
  /\ \A k \in CatalogKeys :
       Cardinality({ g \in DOMAIN PACKAGE_GROUPS : k \in GroupKeys(g) }) = 1
  /\ \A g \in DOMAIN PACKAGE_GROUPS :
       /\ GroupKeys(g) \subseteq CatalogKeys
       /\ Cardinality(GroupKeys(g)) = Len(PACKAGE_GROUPS[g])
  /\ Cardinality(CatalogKeys) = Len(PACKAGE_COLUMNS)
  /\ DOMAIN PACKAGE_GROUPS = SeqToSet(GroupNames)
  /\ Returned =>
       SumOver(SeqToSet(GroupNames), Res.groupStats) = Res.stats.totalPackages

\* counts in two different groups have been aggregated
C9_Witness ==
  /\ Returned
  /\ Res.groupStats["Warp Package"] > 0
  /\ Res.groupStats["Boxes Package"] > 0
  /\ Res.stats.totalPackages
       = Res.groupStats["Warp Package"] + Res.groupStats["Boxes Package"]

\* C10: packageData has one entry for each catalog key whose total count is
\* greater than 0 and no other entry, the entry carries the key (without its
\* " QTY" suffix) and that total, and the values are non-increasing
C10_PackageData ==
  Returned =>
    LET pd       == Res.packageData
        positive == { k \in CatalogKeys : TotalOf({ k }) > 0 }
    IN /\ Len(pd) = Cardinality(positive)
       /\ \A k \in positive :
            \E i \in 1..Len(pd) :
              pd[i] = [ name |-> ReplaceQty(k), value |-> TotalOf({ k }) ]
       /\ \A i \in 1..(Len(pd) - 1) : pd[i].value >= pd[i + 1].value

\* the later catalog key has the larger total and comes first; the fifteen
\* keys with total 0 are dropped
C10_Witness ==
  /\ Returned
  /\ data = << RowWith("110x110x115 QTY", 1), RowWith("RETURNABLE QTY", 2) >>
  /\ Res.packageData = << [ name |-> "RETURNABLE", value |-> 2 ],
                          [ name |-> "110x110x115", value |-> 1 ] >>

(***************************************************************************)
(* Top-customer chart series                                               *)
(***************************************************************************)
ChartNames == { Res.shipmentChartData[i].name : i \in 1..Len(Res.shipmentChartData) }

DatesIn == { data[i]["Date"] : i \in Rows }

RowsOfDate(d) == { i \in Rows : data[i]["Date"] = d }

LineEnds(t) == { 0, Len(t) + 1 } \cup { i \in 1..Len(t) : t[i] = Newline }

\* the lines of t as pairs << a, b >>: the line is t[a + 1 .. b - 1]
LineSpans(t) ==
  { << a, b >> \in LineEnds(t) \X LineEnds(t) :
      a < b /\ ~ \E c \in LineEnds(t) : a < c /\ c < b }

\* the lines that have a character other than white space
NonBlankSpans(t) ==
  { sp \in LineSpans(t) :
      \E i \in (sp[1] + 1)..(sp[2] - 1) : t[i] \notin WhiteSpace }

\* the k-th non-blank line of t
NonBlankLine(t, k) ==
  LET sp == CHOOSE s \in NonBlankSpans(t) :
              Cardinality({ b \in NonBlankSpans(t) : b[1] < s[1] }) = k - 1
  IN SubSeq(t, sp[1] + 1, sp[2] - 1)

\* a record without its id
WithoutId(rec) == [ h \in (DOMAIN rec) \ { CharsOf["id"] } |-> rec[h] ]

\* the record parseCSV makes of the k-th data line when it is the only one
AloneRecord(t, k) ==
  parseCSV(NonBlankLine(t, 1) \o << Newline >> \o NonBlankLine(t, k + 1)).records[1]

\* C13: parseCSV returns one record per non-blank line after the header, in
\* input order, and the k-th record (counting from 0) has id "row-k" whatever
\* the header names are, so that the ids are pairwise distinct.
C13_RecordPerLine ==
  (Parsed /\ ~parsed[1].threw) =>
    /\ Len(Records) = Cardinality(NonBlankSpans(text)) - 1
    /\ \A k \in 1..Len(Records) :
         /\ WithoutId(Records[k]) = WithoutId(AloneRecord(text, k))
         /\ Records[k][CharsOf["id"]] = <<"r","o","w","-">> \o DigitsOf(k - 1)
    /\ \A j, k \in 1..Len(Records) :
         j # k => Records[j][CharsOf["id"]] # Records[k][CharsOf["id"]]

\* what holds of the records when no header is named id
C13_RowIdsWithoutIdColumn ==
  (Parsed /\ ~parsed[1].threw /\ CharsOf["id"] \notin SeqToSet(HeadersOf(NonBlankLine(text, 1)))) =>
    /\ Len(Records) = Cardinality(NonBlankSpans(text)) - 1
    /\ \A k \in 1..Len(Records) :
         /\ WithoutId(Records[k]) = WithoutId(AloneRecord(text, k))
         /\ Records[k][CharsOf["id"]] = <<"r","o","w","-">> \o DigitsOf(k - 1)

(***************************************************************************)
(* CSV decoding: the Date column                                           *)
(***************************************************************************)
\* the header names of the text
HeaderNames(t) == HeadersOf(NonBlankLine(t, 1))

\* the fields of the k-th data line
FieldsOf(t, k) == Tokenize(NonBlankLine(t, k + 1), 1, << >>, << >>, FALSE)

\* the positions of the headers called name
ColumnsNamed(t, name) ==
  { p \in 1..Len(HeaderNames(t)) : HeaderNames(t)[p] = CharsOf[name] }

\* the last of them: the one whose field ends up in the record
ColumnOf(t, name) ==
  CHOOSE p \in ColumnsNamed(t, name) : \A q \in ColumnsNamed(t, name) : q <= p

\* v is day/month/year with the first slash at i and the second at j: one or
\* two digits, one or two digits, four digits
IsDayMonthYear(v, i, j) ==
  /\ i \in 2..3 /\ (j - i) \in 2..3 /\ Len(v) = j + 4
  /\ \A n \in 1..Len(v) : IF n \in { i, j } THEN v[n] = "/" ELSE IsDigit(v[n])

\* stored is yyyy-mm-dd with the year text y and the numbers of month m, day d
IsIsoOf(stored, y, m, d) ==
  /\ Len(stored) = 10 /\ stored[5] = "-" /\ stored[8] = "-"
  /\ SubSeq(stored, 1, 4) = y
  /\ AllDigits(SubSeq(stored, 6, 7)) /\ NumberOf(SubSeq(stored, 6, 7)) = NumberOf(m)
  /\ AllDigits(SubSeq(stored, 9, 10)) /\ NumberOf(SubSeq(stored, 9, 10)) = NumberOf(d)

\* C14: a field of the column named exactly Date that reads D{1,2}/D{1,2}/YYYY
\* is stored as zero-padded ISO YYYY-MM-DD, the first number being the day and
\* the second the month; any other field of that column is stored unchanged.
C14_DateColumn ==
  (Parsed /\ ~parsed[1].threw /\ ColumnsNamed(text, "Date") # {}) =>
    \A k \in 1..Len(Records) :
      LET p == ColumnOf(text, "Date")
          fields == FieldsOf(text, k)
          stored == Records[k][CharsOf["Date"]]
      IN p <= Len(fields) =>
           IF \E i, j \in 1..Len(fields[p]) : IsDayMonthYear(fields[p], i, j)
           THEN \A i, j \in 1..Len(fields[p]) :
                  IsDayMonthYear(fields[p], i, j) =>
                    IsIsoOf(stored, SubSeq(fields[p], j + 1, j + 4),
                            SubSeq(fields[p], i + 1, j - 1), SubSeq(fields[p], 1, i - 1))
           ELSE stored = fields[p]

\* "25/12/2024" is stored as "2024-12-25" and "31-12-2024" as it is
C14_Witness ==
  /\ Parsed /\ ~parsed[1].threw
  /\ ColumnsNamed(text, "Date") = { 1 }
  /\ Len(Records) = 2
  /\ FieldsOf(text, 1)[1] = <<"2","5","/","1","2","/","2","0","2","4">>
  /\ Records[1][CharsOf["Date"]] = <<"2","0","2","4","-","1","2","-","2","5">>
  /\ FieldsOf(text, 2)[1] = <<"3","1","-","1","2","-","2","0","2","4">>
  /\ Records[2][CharsOf["Date"]] = <<"3","1","-","1","2","-","2","0","2","4">>

(***************************************************************************)
(* Dates: display text, ISO text and back                                  *)
(***************************************************************************)
IsLeapYear(y) == (y % 4 = 0 /\ y % 100 # 0) \/ y % 400 = 0

DaysInMonth(m, y) ==
  IF m = 2 THEN (IF IsLeapYear(y) THEN 29 ELSE 28)
  ELSE IF m \in { 4, 6, 9, 11 } THEN 30 ELSE 31

\* the day, month and year texts of a text d<sep>m<sep>y
DayMonthYear(v, sep) ==
  LET at == { n \in 1..Len(v) : v[n] = sep }
      i == CHOOSE n \in at : \A k \in at : n <= k
      j == CHOOSE n \in at : \A k \in at : k <= n
  IN << SubSeq(v, 1, i - 1), SubSeq(v, i + 1, j - 1), SubSeq(v, j + 1, Len(v)) >>

\* v is day/month/year naming a day of the calendar
IsValidDisplayDate(v) ==
  /\ \E i, j \in 1..Len(v) : IsDayMonthYear(v, i, j)
  /\ LET dmy == DayMonthYear(v, "/")
     IN /\ NumberOf(dmy[2]) \in 1..12
        /\ NumberOf(dmy[1]) \in 1..DaysInMonth(NumberOf(dmy[2]), NumberOf(dmy[3]))

\* C15: for a valid display date the decoder accepts, decoding it and
\* displaying the stored value again, by formatDisplayDate (DD/MM/YYYY) or by
\* the table's formatDateForDisplay (DD-MM-YYYY), gives back the original
\* day, month and year text; and parseDisplayDate(formatDisplayDate(iso)) is
\* iso again.
C15_RoundTrip ==
  IsValidDisplayDate(display) =>
    /\ Has(shown, "form") => DayMonthYear(shown["form"], "/") = DayMonthYear(display, "/")
    /\ Has(shown, "table") => DayMonthYear(shown["table"], "-") = DayMonthYear(display, "/")
    /\ Has(shown, "back") => shown["back"] = Iso

\* t is the text n, or "0" followed by it when n is a single character
IsPaddedTo2(t, n) == t = n \/ (Len(n) = 1 /\ t = << "0" >> \o n)

\* C15, amended: the texts displayed again have the original year and the
\* original day and month written with two digits, which is the original
\* text when day and month were typed with two digits; and
\* parseDisplayDate(formatDisplayDate(iso)) is iso again.
C15_RoundTripPadded ==
  IsValidDisplayDate(display) =>
    LET typed == DayMonthYear(display, "/")
        Same(again) == /\ IsPaddedTo2(again[1], typed[1])
                       /\ IsPaddedTo2(again[2], typed[2])
                       /\ again[3] = typed[3]
    IN /\ Has(shown, "form") => Same(DayMonthYear(shown["form"], "/"))
       /\ Has(shown, "table") => Same(DayMonthYear(shown["table"], "-"))
       /\ (Has(shown, "form") /\ Len(display) = 10) => shown["form"] = display
       /\ Has(shown, "back") => shown["back"] = Iso

\* "5/1/2024" is stored as "2024-01-05" and displayed as "05/01/2024" and
\* "05-01-2024"
C15_Witness ==
  /\ display = <<"5","/","1","/","2","0","2","4">>
  /\ Decoded /\ Iso = <<"2","0","2","4","-","0","1","-","0","5">>
  /\ Has(shown, "form") /\ shown["form"] = <<"0","5","/","0","1","/","2","0","2","4">>
  /\ Has(shown, "table") /\ shown["table"] = <<"0","5","-","0","1","-","2","0","2","4">>
  /\ Has(shown, "back") /\ shown["back"] = <<"2","0","2","4","-","0","1","-","0","5">>

(***************************************************************************)
(* CSV decoding: quoted fields                                             *)
(***************************************************************************)
\* the positions just outside the fields of a line: 0, every comma that has
\* an even number of quote characters before it, Len(line) + 1
FieldEnds(line) ==
  { 0, Len(line) + 1 } \cup
    { i \in 1..Len(line) :
        /\ line[i] = Comma
        /\ Cardinality({ j \in 1..(i - 1) : line[j] = Quote }) % 2 = 0 }

\* the fields of the line as written, each between two neighbouring ends
WrittenFields(line) ==
  LET ends == FieldEnds(line)
      EndAt(k) == CHOOSE e \in ends : Cardinality({ x \in ends : x < e }) = k
  IN [ p \in 1..(Cardinality(ends) - 1) |->
         SubSeq(line, EndAt(p - 1) + 1, EndAt(p) - 1) ]

\* the p-th field of the line as written, without the white space around it
RawField(line, p) == Trim(WrittenFields(line)[p])

\* the field is written between two quote characters
IsQuoted(raw) == Len(raw) >= 2 /\ raw[1] = Quote /\ raw[Len(raw)] = Quote

RECURSIVE Undoubled(_)
\* the text between the outer quotes with every doubled quote read as one
Undoubled(inner) ==
  IF inner = << >> THEN << >>
  ELSE IF Len(inner) >= 2 /\ inner[1] = Quote /\ inner[2] = Quote
       THEN << Quote >> \o Undoubled(SubSeq(inner, 3, Len(inner)))
  ELSE << inner[1] >> \o Undoubled(Tail(inner))

\* what a quoted or plain field stands for
Meant(raw) ==
  IF IsQuoted(raw) THEN Undoubled(SubSeq(raw, 2, Len(raw) - 1)) ELSE raw

\* C16: a comma inside a double-quoted field is part of the field, and a
\* doubled quote inside a quoted field is one literal quote character kept in
\* the decoded value.  Stated of the Shipment column.
C16_QuotedFields ==
  (Parsed /\ ~parsed[1].threw /\ ColumnsNamed(text, "Shipment") # {}) =>
    \A k \in 1..Len(Records) :
      LET line == NonBlankLine(text, k + 1)
          p == ColumnOf(text, "Shipment")
      IN p <= Len(WrittenFields(line)) =>
           Records[k][CharsOf["Shipment"]] = Meant(RawField(line, p))

\* the part that holds: commas inside quotes stay in the field, and the value
\* is what the field stands for with every quote character removed
C16_CommaKeptQuotesRemoved ==
  (Parsed /\ ~parsed[1].threw /\ ColumnsNamed(text, "Shipment") # {}) =>
    \A k \in 1..Len(Records) :
      LET line == NonBlankLine(text, k + 1)
          p == ColumnOf(text, "Shipment")
      IN p <= Len(WrittenFields(line)) =>
           Records[k][CharsOf["Shipment"]]
             = SelectSeq(Meant(RawField(line, p)), LAMBDA c : c # Quote)

(***************************************************************************)
(* CSV decoding: short lines and numeric fields                            *)
(***************************************************************************)
\* the headers of the model's texts whose fields are read as numbers
NumericHeaderNames == { CharsOf["QTY"], CharsOf["SI QTY"], CharsOf["WARP QTY"] }

\* the columns of the k-th data line that lie beyond its last field
MissingColumns(t, k) ==
  { p \in 1..Len(HeaderNames(t)) : p > Len(WrittenFields(NonBlankLine(t, k + 1))) }

\* C17: a data line with fewer fields than headers does not make parseCSV
\* throw, and the record has no value (undefined or absent) for every header
\* beyond the line's field count.
C17_MissingFieldsAbsent ==
  (Parsed /\ text # << >> /\ NonBlankSpans(text) # {}) =>
    /\ ~parsed[1].threw
    /\ \A k \in 1..Len(Records) : \A p \in MissingColumns(text, k) :
         ~Has(Records[k], HeaderNames(text)[p])

\* C17, amended: a data line with fewer fields than headers does not make
\* parseCSV throw, and the record has the empty string for every text or Date
\* header beyond the line's field count and 0 for every numeric one.
C17_MissingFieldsDefault ==
  (Parsed /\ text # << >> /\ NonBlankSpans(text) # {}) =>
    /\ ~parsed[1].threw
    /\ \A k \in 1..Len(Records) : \A p \in MissingColumns(text, k) :
         LET h == HeaderNames(text)[p]
         IN /\ Has(Records[k], h)
            /\ IF h \in NumericHeaderNames THEN Records[k][h] = 0
               ELSE Records[k][h] = << >>

\* the line "7/8/2024" under the headers Date, Shipment, QTY
C17_Witness ==
  /\ Parsed /\ ~parsed[1].threw
  /\ Len(Records) = 1
  /\ MissingColumns(text, 1) = { 2, 3 }
  /\ Records[1] = ( CharsOf["id"] :> <<"r","o","w","-","0">> ) @@ ( CharsOf["Date"] :> <<"2","0","2","4","-","0","8","-","0","7">> )
                    @@ ( CharsOf["Shipment"] :> << >> ) @@ ( CharsOf["QTY"] :> 0 )

\* C18: every record parseCSV produces has QTY >= 0, SI QTY >= 0 and a count
\* >= 0 for every catalog key: a numeric field whose text is negative or not
\* a number is stored as 0.
C18_NonNegative ==
  (Parsed /\ ~parsed[1].threw) =>
    \A k \in 1..Len(Records) :
      \A name \in { "QTY", "SI QTY" } \cup SeqToSet(PACKAGE_COLUMNS) :
        Has(Records[k], CharsOf[name]) => Records[k][CharsOf[name]] >= 0

\* the part that holds: a numeric field whose text is not a number is 0
C18_NotANumberIsZero ==
  (Parsed /\ ~parsed[1].threw) =>
    \A k \in 1..Len(Records) : \A p \in 1..Len(HeaderNames(text)) :
      LET line == NonBlankLine(text, k + 1)
          h == HeaderNames(text)[p]
      IN ( /\ h \in NumericHeaderNames
           /\ p <= Len(WrittenFields(line))
           /\ ~ \E i \in 1..Len(RawField(line, p)) : IsDigit(RawField(line, p)[i]) )
         => Records[k][h] = 0

(***************************************************************************)
(* CSV export                                                              *)
(***************************************************************************)
\* the k-th line of a text, counting blank ones
LineAt(t, k) ==
  LET sp == CHOOSE s \in LineSpans(t) :
              Cardinality({ b \in LineSpans(t) : b[1] < s[1] }) = k - 1
  IN SubSeq(t, sp[1] + 1, sp[2] - 1)

RECURSIVE QuotesDoubled(_)
\* every quote character of the text is followed by a second one
QuotesDoubled(inner) ==
  IF inner = << >> THEN TRUE
  ELSE IF inner[1] = Quote
       THEN Len(inner) >= 2 /\ inner[2] = Quote /\ QuotesDoubled(SubSeq(inner, 3, Len(inner)))
  ELSE QuotesDoubled(Tail(inner))

\* the value is wrapped in double quotes with the quotes inside doubled
IsWrapped(written) ==
  IsQuoted(written) /\ QuotesDoubled(SubSeq(written, 2, Len(written) - 1))

\* the values the written values of an exported line stand for
ValuesOf(line) ==
  LET written == WrittenFields(line)
  IN [ p \in 1..Len(written) |-> Meant(written[p]) ]

\* the text of a whole number
IsIntegerText(v) == v # << >> /\ AllDigits(v)

\* the text of a number with two decimals
IsTwoDecimalText(v) ==
  /\ Len(v) >= 4 /\ v[Len(v) - 2] = "."
  /\ AllDigits(SubSeq(v, 1, Len(v) - 3)) /\ AllDigits(SubSeq(v, Len(v) - 1, Len(v)))

\* what String() makes of a base field of the record
BaseText(row, field) ==
  IF ~Has(row, field) THEN <<"u","n","d","e","f","i","n","e","d">>
  ELSE IF field \in { "SI QTY", "QTY" } THEN DigitsOf(row[field])
  ELSE TextOf[row[field]]

Hundredths(v) ==
  100 * NumberOf(SubSeq(v, 1, Len(v) - 3)) + NumberOf(SubSeq(v, Len(v) - 1, Len(v)))

\* h hundredths is x rounded to two decimals: no number of hundredths is nearer
IsRounded(h, x) == 2 * Abs(h * x.den - 100 * x.num) <= x.den

\* the column of the export that shows a group's total, and its ratio
TotalColumn ==
  ( "Standard Package" :> 8 ) @@ ( "Boxes Package" :> 9 ) @@
  ( "Warp Package" :> 10 ) @@ ( "Returnable Package" :> 11 )

RatioColumn ==
  ( "Standard Package" :> 12 ) @@ ( "Boxes Package" :> 13 ) @@
  ( "Warp Package" :> 14 ) @@ ( "Returnable Package" :> 15 )

\* C20: for every exported record r the computed columns of its line agree
\* with aggregateData([r]): each group's Total is groupStats of the group,
\* Total Packages is stats.totalPackages, and each Ratio is the group's
\* ratioStats maxCapacity rounded to two decimals.
C20_ExportAgreesWithAggregation ==
  Exported =>
    \A k \in 1..Len(data) : \A a \in aggregateData(<< data[k] >>) :
      LET values == ValuesOf(LineAt(Csv, k + 1))
      IN /\ NumberOf(values[7]) = a.stats.totalPackages
         /\ \A g \in SeqToSet(GroupNames) :
              /\ NumberOf(values[TotalColumn[g]]) = a.groupStats[g]
              /\ IsRounded(Hundredths(values[RatioColumn[g]]),
                           a.ratioStats[g].maxCapacity)

\* a record with one 27X27X22 and two 42X46X68: Boxes Total 3, and the ratio
\* 1/30 + 2/3 is written 0.70; and a record with two RETURNABLE: ratio 1.00
C20_Witness ==
  /\ Exported /\ Len(data) = 2
  /\ Has(data[1], "27X27X22 QTY") /\ Has(data[1], "42X46X68 QTY")
  /\ ValuesOf(LineAt(Csv, 2))[7] = <<"3">>
  /\ ValuesOf(LineAt(Csv, 2))[9] = <<"3">>
  /\ ValuesOf(LineAt(Csv, 2))[13] = <<"0",".","7","0">>
  /\ Has(data[2], "RETURNABLE QTY") /\ data[2]["RETURNABLE QTY"] = 2
  /\ ValuesOf(LineAt(Csv, 3))[11] = <<"2">>
  /\ ValuesOf(LineAt(Csv, 3))[15] = <<"1",".","0","0">>


\* ------------------------------------------------------------------------
\* App (App.tsx): the record list, the view, isLoading and the success
\* modal flag, with the loadData and handleAddRecord calls waiting on their
\* awaits.  What fetchPackingData and submitPackingData resolve to is an
\* input: any list of store rows, any boolean.
\* ------------------------------------------------------------------------
MaxAdds == 2
MaxStoreRows == 2
SampleCount == 50

StoreRow(i) == [id |-> <<"row", i>>]

FormRecord(k) == [id |-> <<"form", k>>]

FetchResults == { [i \in 1..n |-> StoreRow(i)] : n \in 0..MaxStoreRows }

generateSampleData == [i \in 1..SampleCount |-> [id |-> <<"sample", i - 1>>]]

\* the loadData call made on mount; a call made by handleAddRecord is named
\* by the position of that handleAddRecord call in app.adds
MountCall == 0

\* loadData up to its await: setIsLoading(true), then the fetch is sent
loadData(a, call) ==
  [a EXCEPT !.isLoading = TRUE, !.loads = @ \cup {call}, !.fetches = @ + 1]

OnlyApp ==
  UNCHANGED << result, text, parsed, display, iso, shown, exported,
               store, upload, table, modal >>

\* useEffect(() => { loadData(); }, [])
Mount ==
  /\ ~app.mounted
  /\ app' = loadData([app EXCEPT !.mounted = TRUE], MountCall)
  /\ UNCHANGED data
  /\ OnlyApp

LoadDataResumes_AlwaysSample ==
  /\ \E call \in app.loads, apiData \in FetchResults :
       /\ data' = IF Len(apiData) > 0 THEN apiData ELSE generateSampleData
       /\ app' = [app EXCEPT !.isLoading = FALSE, !.loads = @ \ {call},
                             !.apiData = apiData]
  /\ OnlyApp

\* loadData after its await: the fetch of some call resolves to apiData
LoadDataResumes ==
  /\ \E call \in app.loads, apiData \in FetchResults :
       /\ data' = IF Len(apiData) > 0 THEN apiData
                  ELSE IF ~app.url THEN generateSampleData ELSE << >>
       /\ app' = [app EXCEPT !.isLoading = FALSE, !.loads = @ \ {call},
                             !.apiData = apiData]
  /\ OnlyApp

\* the navigation buttons and the form's Cancel
SetView ==
  /\ app.mounted
  /\ \E v \in {"dashboard", "table", "input"} :
       /\ v # app.view
       /\ app' = [app EXCEPT !.view = v]
  /\ UNCHANGED data
  /\ OnlyApp

\* handleAddRecord up to its await: the form's Save sends the record
handleAddRecord ==
  /\ app.mounted /\ app.view = "input"
  /\ Len(app.adds) < MaxAdds
  /\ app' = [app EXCEPT !.adds =
               Append(@, [record |-> FormRecord(Len(@) + 1), at |-> "submit"])]
  /\ UNCHANGED data
  /\ OnlyApp

SubmitResumes_LeavesForm ==
  /\ \E k \in DOMAIN app.adds, success \in BOOLEAN :
       /\ app.adds[k].at = "submit"
       /\ app' = IF success
                 THEN loadData([app EXCEPT !.adds[k].at = "load"], k)
                 ELSE [app EXCEPT !.adds[k].at = "failed", !.alerts = @ + 1,
                                  !.view = "table"]
  /\ UNCHANGED data
  /\ OnlyApp

\* handleAddRecord after await submitPackingData(record)
SubmitResumes ==
  /\ \E k \in DOMAIN app.adds, success \in BOOLEAN :
       /\ app.adds[k].at = "submit"
       /\ app' = IF success
                 THEN loadData([app EXCEPT !.adds[k].at = "load"], k)
                 ELSE [app EXCEPT !.adds[k].at = "failed", !.alerts = @ + 1]
  /\ UNCHANGED data
  /\ OnlyApp

AwaitedLoadData_NotAwaited(k) == TRUE

AwaitedLoadData(k) == k \notin app.loads

\* handleAddRecord after await loadData()
AddResumes ==
  /\ \E k \in DOMAIN app.adds :
       /\ app.adds[k].at = "load"
       /\ AwaitedLoadData(k)
       /\ app' = [app EXCEPT !.adds[k].at = "saved", !.view = "table",
                             !.showSuccessModal = TRUE]
  /\ UNCHANGED data
  /\ OnlyApp

\* the modal's onClose: () => setShowSuccessModal(false)
CloseSuccessModal ==
  /\ app.showSuccessModal
  /\ app' = [app EXCEPT !.showSuccessModal = FALSE]
  /\ UNCHANGED data
  /\ OnlyApp

NextApp ==
  \/ Mount
  \/ LoadDataResumes
  \/ SetView
  \/ handleAddRecord
  \/ SubmitResumes
  \/ AddResumes
  \/ CloseSuccessModal

InitApp ==
  /\ data = << >>
  /\ \E url \in BOOLEAN :
       app = [url |-> url, mounted |-> FALSE, view |-> "dashboard",
              isLoading |-> FALSE, showSuccessModal |-> FALSE, alerts |-> 0,
              loads |-> {}, fetches |-> 0, apiData |-> << >>, adds |-> << >>]
  /\ result = << >> /\ text = << >> /\ parsed = << >>
  /\ display = << >> /\ iso = << >> /\ shown = << >> /\ exported = << >>
  /\ store = << >> /\ upload = << >> /\ table = << >> /\ modal = << >>

SpecApp == InitApp /\ [][NextApp]_vars


\* ------------------------------------------------------------------------
\* C21..C23, C27: App's loadData and handleAddRecord
\* ------------------------------------------------------------------------
Submitted == { app.adds[k].record : k \in DOMAIN app.adds }

\* C21: a step in which submitPackingData reports failure (the alert is
\* raised) leaves the record list, the view, the success-modal flag,
\* isLoading and the pending loads as they were, raises exactly one alert,
\* and no submitted record is in the record list.
C21_FailedAddOnlyAlerts ==
  [][ app'.alerts # app.alerts =>
        /\ app'.alerts = app.alerts + 1
        /\ data' = data
        /\ app'.view = app.view
        /\ app'.showSuccessModal = app.showSuccessModal
        /\ app'.isLoading = app.isLoading /\ app'.loads = app.loads
        /\ \E k \in DOMAIN app.adds :
             /\ app.adds[k].at = "submit" /\ app'.adds[k].at = "failed"
             /\ app.adds[k].record \notin SeqToSet(data') ]_vars

C21_Witness ==
  /\ app.alerts = 1 /\ app.view = "input" /\ ~app.showSuccessModal
  /\ Len(data) = 2 /\ app.adds = << [record |-> FormRecord(1), at |-> "failed"] >>

\* C22: when submitPackingData reports success, loadData is called at once
\* (a new fetch, isLoading true); the view is switched to 'table' and the
\* success modal opened only in a step of a handleAddRecord call whose
\* loadData call has applied its result; and no submitted record is ever an
\* element of the record list.
C22_ReloadThenSuccess ==
  [][ /\ \A k \in DOMAIN app.adds :
           /\ (app.adds[k].at = "submit" /\
              app'.adds[k].at \notin {"submit", "failed"}) =>
                /\ app'.adds[k].at = "load" /\ k \in app'.loads
                /\ app'.fetches = app.fetches + 1 /\ app'.isLoading
                /\ app'.view = app.view
                /\ app'.showSuccessModal = app.showSuccessModal
           /\ (app.adds[k].at # "saved" /\ app'.adds[k].at = "saved") =>
                /\ app.adds[k].at = "load" /\ k \notin app.loads
                /\ app'.view = "table" /\ app'.showSuccessModal
      /\ (app'.showSuccessModal /\ ~app.showSuccessModal) =>
           \E k \in DOMAIN app.adds :
              app.adds[k].at = "load" /\ app'.adds[k].at = "saved"
      /\ Submitted \cap SeqToSet(data') = {} ]_vars

C22_Witness ==
  /\ app.adds = << [record |-> FormRecord(1), at |-> "saved"] >>
  /\ app.view = "table" /\ app.showSuccessModal /\ app.fetches = 2
  /\ app.loads = {} /\ data = << StoreRow(1), StoreRow(2) >>

\* C23: a step in which a loadData call applies its fetch result leaves
\* isLoading false; the record list is the fetched list if that is not
\* empty; otherwise it is the generated sample data (50 records) exactly
\* when no endpoint URL is configured, and the empty list when one is.
C23_LoadDataOutcome ==
  [][ (app'.loads # app.loads /\ app'.loads \subseteq app.loads) =>
        /\ ~app'.isLoading
        /\ Len(app'.apiData) > 0 => data' = app'.apiData
        /\ Len(app'.apiData) = 0 =>
             /\ (data' = generateSampleData) <=> ~app.url
             /\ app.url => data' = << >>
             /\ ~app.url => Len(data') = SampleCount ]_vars

C23_Witness ==
  /\ ~app.url /\ app.fetches = 1 /\ app.loads = {} /\ ~app.isLoading
  /\ app.apiData = << >> /\ Len(data) = SampleCount
  /\ data[1].id = <<"sample", 0>>

\* C27: isLoading is true whenever some loadData call has sent its fetch and
\* not yet applied the result.
C27_LoadingWhileFetching == app.loads # {} => app.isLoading


\* ------------------------------------------------------------------------
\* The store script (doGet, doPost, handleRequest): the sheet as its list
\* of rows, the script lock (0 when free, else the request holding it) and
\* the requests, each at its next statement of handleRequest.
\* ------------------------------------------------------------------------
MaxRequests == 3
MaxSheetRows == 2
START_ROW == 2
START_COL == 1
END_COL == 25

\* a request: doGet (no postData) or doPost, action=add or not; a posted
\* body is JSON with a values array, or text that makes JSON.parse throw
Requests ==
  { [post |-> FALSE, action |-> "read", body |-> "none", values |-> << >>],
    [post |-> FALSE, action |-> "add", body |-> "none", values |-> << >>],
    [post |-> TRUE, action |-> "add", body |-> "invalid", values |-> << >>],
    [post |-> TRUE, action |-> "add", body |-> "values",
     values |-> <<"ACME", "5">>] }

OnlyStore ==
  UNCHANGED << data, result, text, parsed, display, iso, shown, exported,
               app, upload, table, modal >>

At(r, pc) == r \in DOMAIN store.reqs /\ store.reqs[r].pc = pc

Goto(r, pc) == [store EXCEPT !.reqs[r].pc = pc]

Respond(s, r, response) ==
  [s EXCEPT !.reqs[r].pc = "finally", !.reqs[r].response = response]

\* doGet(e), doPost(e): return handleRequest(e)
Arrive ==
  /\ Len(store.reqs) < MaxRequests
  /\ \E e \in Requests :
       /\ store' = [store EXCEPT !.reqs =
            Append(@, [e |-> e, pc |-> "tryLock", lastRow |-> 0,
                       response |-> << >>])]
  /\ OnlyStore

\* lock.tryLock(10000) when the lock is or becomes free within the wait
TryLockAcquires ==
  /\ \E r \in DOMAIN store.reqs :
       /\ At(r, "tryLock") /\ store.lock = 0
       /\ store' = [Goto(r, "getSheet") EXCEPT !.lock = r]
  /\ OnlyStore

\* lock.tryLock(10000) when another request keeps the lock for the whole
\* wait: it returns false, and the result is not looked at
TryLockTimesOut ==
  /\ \E r \in DOMAIN store.reqs :
       /\ At(r, "tryLock") /\ store.lock # 0
       /\ store' = Goto(r, "getSheet")
  /\ OnlyStore

\* ss.getSheetByName(SHEET_NAME), if (!sheet), if (action === "add")
GetSheet ==
  /\ \E r \in DOMAIN store.reqs :
       /\ At(r, "getSheet")
       /\ store' =
            IF ~store.sheetExists
            THEN Respond(store, r, [status |-> "error", message |-> "Sheet not found"])
            ELSE IF store.reqs[r].e.action = "add" THEN Goto(r, "add")
            ELSE Goto(r, "getLastRow")
  /\ OnlyStore

newRow_Reversed(now, values) ==
  << [date |-> now] >> \o [i \in 1..Len(values) |-> values[Len(values) + 1 - i]]

newRow(now, values) == << [date |-> now] >> \o values

\* JSON.parse(e.postData.contents), [new Date(), ...data.values], appendRow
AddRow ==
  /\ \E r \in DOMAIN store.reqs :
       /\ At(r, "add")
       /\ store' =
            IF store.reqs[r].e.body # "values"
            THEN Respond(store, r, [status |-> "error", message |-> "exception"])
            ELSE Respond([store EXCEPT
                            !.sheet = Append(@, newRow(store.now,
                                                       store.reqs[r].e.values)),
                            !.now = @ + 1],
                         r, [status |-> "success", message |-> "Row added"])
  /\ OnlyStore

\* sheet.getLastRow(), if (lastRow < START_ROW)
GetLastRow ==
  /\ \E r \in DOMAIN store.reqs :
       /\ At(r, "getLastRow")
       /\ LET lastRow == Len(store.sheet) IN
          store' =
            IF lastRow < START_ROW
            THEN Respond(store, r, [status |-> "success", data |-> << >>])
            ELSE [Goto(r, "getRange") EXCEPT !.reqs[r].lastRow = lastRow]
  /\ OnlyStore

\* sheet.getRange(...).getDisplayValues(): the response carries the display
\* values of the range, named here by the range
GetRange ==
  /\ \E r \in DOMAIN store.reqs :
       /\ At(r, "getRange")
       /\ store' = Respond(store, r, [status |-> "success", data |->
            << START_ROW, START_COL,
               store.reqs[r].lastRow - START_ROW + 1, END_COL >>])
  /\ OnlyStore

releaseLock_Skipped(lock, r) == lock

releaseLock(lock, r) == IF lock = r THEN 0 ELSE lock

\* finally { lock.releaseLock(); }
Finally ==
  /\ \E r \in DOMAIN store.reqs :
       /\ At(r, "finally")
       /\ store' = [Goto(r, "returned") EXCEPT
                      !.lock = releaseLock(@, r)]
  /\ OnlyStore

NextStore ==
  \/ Arrive
  \/ TryLockAcquires
  \/ TryLockTimesOut
  \/ GetSheet
  \/ AddRow
  \/ GetLastRow
  \/ GetRange
  \/ Finally

\* the sheet is missing, or holds its header row and some earlier rows
InitStore ==
  /\ \E exists \in BOOLEAN, n \in 0..MaxSheetRows :
       /\ exists \/ n = 0
       /\ store = [sheetExists |-> exists,
                   sheet |-> [i \in 1..n |->
                                IF i = 1 THEN <<"Timestamp", "Shipment">>
                                ELSE newRow(0, <<"ACME">>)],
                   rows0 |-> n, now |-> 1, lock |-> 0, reqs |-> << >>]
  /\ data = << >> /\ result = << >> /\ text = << >> /\ parsed = << >>
  /\ display = << >> /\ iso = << >> /\ shown = << >> /\ exported = << >>
  /\ app = << >> /\ upload = << >> /\ table = << >> /\ modal = << >>

SpecStore == InitStore /\ [][NextStore]_vars


\* ------------------------------------------------------------------------
\* C24, C25, C28: the store script
\* ------------------------------------------------------------------------
\* the requests between getSheetByName and their response: about to parse
\* and append, or to read the last row or the range
InSection ==
  { r \in DOMAIN store.reqs :
      store.reqs[r].pc \in {"add", "getLastRow", "getRange"} }

ReturnedWith(response) ==
  { r \in DOMAIN store.reqs :
      /\ store.reqs[r].pc = "returned"
      /\ store.reqs[r].response = response }

\* C24: at most one request is in the read/append section at a time, and a
\* request in it holds the script lock (one whose tryLock timed out is not
\* in it).
C24_OneRequestInSection ==
  /\ Cardinality(InSection) <= 1
  /\ \A r \in InSection : store.lock = r

\* C25: every step leaves the sheet as it was or appends one row to it; a
\* row is appended only by a request with action=add that answers "Row
\* added", and is the server's date followed by the request's values in
\* order; a step in which a request gets an error response or a read
\* response leaves the sheet unchanged; and the sheet holds its first rows
\* plus one row per "Row added" answer.
C25_AppendOnly ==
  [][ /\ \/ store'.sheet = store.sheet
         \/ \E r \in DOMAIN store.reqs :
              /\ store.reqs[r].e.action = "add"
              /\ store.reqs[r].response = << >>
              /\ store'.reqs[r].response = [status |-> "success", message |-> "Row added"]
              /\ Len(store'.sheet) = Len(store.sheet) + 1
              /\ SubSeq(store'.sheet, 1, Len(store.sheet)) = store.sheet
              /\ LET row == store'.sheet[Len(store'.sheet)] IN
                   /\ row[1] = [date |-> store.now]
                   /\ SubSeq(row, 2, Len(row)) = store.reqs[r].e.values
      /\ \A r \in DOMAIN store.reqs :
           /\ store.reqs[r].response = << >>
           /\ store'.reqs[r].response # << >>
           /\ \/ store'.reqs[r].response.status = "error"
              \/ store.reqs[r].e.action # "add"
           => store'.sheet = store.sheet
      /\ Len(store'.sheet) =
           store'.rows0 +
           Cardinality({ r \in DOMAIN store'.reqs :
              store'.reqs[r].response = [status |-> "success", message |-> "Row added"] })
    ]_vars

C25_Witness ==
  /\ store.rows0 = 2 /\ Len(store.sheet) = 4
  /\ store.sheet[4] = << [date |-> 2], "ACME", "5" >>
  /\ ReturnedWith([status |-> "error", message |-> "exception"]) = {3}

\* C28: a request that has returned does not hold the script lock, whatever
\* its exit path; the lock is only ever held by a request that is still
\* between its tryLock and its finally; so when no request is running the
\* lock is free for the next one.
C28_LockReleased ==
  /\ \A r \in DOMAIN store.reqs :
       store.reqs[r].pc = "returned" =>
         store.lock # r /\ store.reqs[r].response # << >>
  /\ store.lock # 0 =>
       /\ store.lock \in DOMAIN store.reqs
       /\ store.reqs[store.lock].pc \notin {"tryLock", "returned"}
  /\ (\A r \in DOMAIN store.reqs : store.reqs[r].pc = "returned") =>
       store.lock = 0

C28_Witness ==
  /\ store.lock = 0 /\ Len(store.reqs) = 3
  /\ ReturnedWith([status |-> "success", message |-> "Row added"]) # {}
  /\ ReturnedWith([status |-> "error", message |-> "exception"]) # {}
  /\ ReturnedWith([status |-> "success", data |->
                    << START_ROW, START_COL, 2, END_COL >>]) # {}


\* ------------------------------------------------------------------------
\* DataUploader (processFile and its reader.onload) with App's
\* handleDataLoaded as onDataLoaded.  `text` is the text last handed to
\* parseCSV and `parsed` its outcome; `data` is App's record list; app holds
\* the view and the four filters.
\* ------------------------------------------------------------------------
MaxFiles == 2

\* file.type and file.name of the files offered
Files ==
  { [type |-> "text/csv", name |-> <<"a", ".", "c", "s", "v">>],
    [type |-> "text/csv", name |-> <<"a", ".", "t", "x", "t">>],
    [type |-> "", name |-> <<"a", ".", "c", "s", "v">>],
    [type |-> "text/plain", name |-> <<"a", ".", "t", "x", "t">>],
    [type |-> "", name |-> <<"c", "s", "v">>] }

\* the texts of the files: empty, blank, a header alone, a header and a line
FileTexts ==
  { JoinLines(<< h >> \o ls) :
      h \in HeaderLines,
      ls \in { << >>,
               << <<"2","5","/","1","2","/","2","0","2","4",",","T","o","y","o","t","a",",","5">> >> } }
    \cup { << >>, <<" ","\n">> }

endsWith(name, suffix) ==
  /\ Len(name) >= Len(suffix)
  /\ SubSeq(name, Len(name) - Len(suffix) + 1, Len(name)) = suffix

OnlyUpload ==
  UNCHANGED << result, display, iso, shown, exported, store, table, modal >>

\* processFile(file): setError(null), the type test, reader.readAsText(file)
processFile ==
  /\ upload.files < MaxFiles
  /\ \E file \in Files, t \in FileTexts :
       upload' =
         IF file.type # "text/csv" /\ ~endsWith(file.name, <<".", "c", "s", "v">>)
         THEN [upload EXCEPT !.files = @ + 1, !.file = file,
                  !.error = "Please upload a valid CSV file."]
         ELSE [upload EXCEPT !.files = @ + 1, !.file = file,
                  !.error = "null", !.reading = @ \cup {t}]
  /\ UNCHANGED << data, text, parsed, app >>
  /\ OnlyUpload

\* handleDataLoaded: setData(newData) is the new `data`; setView, resetFilters
handleDataLoaded(a) ==
  [a EXCEPT !.view = "dashboard", !.selectedYear = "All", !.selectedMonth = "All",
            !.selectedCustomer = "All", !.selectedProduct = "All"]

ReaderLoads_NoLengthTest ==
  /\ \E t \in upload.reading :
       LET out == parseCSV(t) IN
         /\ text' = t
         /\ parsed' = << out >>
         /\ IF out.threw
            THEN /\ upload' = [upload EXCEPT !.reading = @ \ {t}, !.error =
                      "Failed to parse CSV. Please check the file format."]
                 /\ UNCHANGED << data, app >>
            ELSE /\ upload' = [upload EXCEPT !.reading = @ \ {t},
                                  !.calls = Append(@, out.records)]
                 /\ data' = out.records
                 /\ app' = handleDataLoaded(app)
  /\ OnlyUpload

\* reader.onload: parseCSV(text) inside try/catch, then error or onDataLoaded
ReaderLoads ==
  /\ \E t \in upload.reading :
       LET out == parseCSV(t) IN
         /\ text' = t
         /\ parsed' = << out >>
         /\ IF out.threw
            THEN /\ upload' = [upload EXCEPT !.reading = @ \ {t}, !.error =
                      "Failed to parse CSV. Please check the file format."]
                 /\ UNCHANGED << data, app >>
            ELSE IF Len(out.records) = 0
            THEN /\ upload' = [upload EXCEPT !.reading = @ \ {t},
                                  !.error = "No data found in file."]
                 /\ UNCHANGED << data, app >>
            ELSE /\ upload' = [upload EXCEPT !.reading = @ \ {t},
                                  !.calls = Append(@, out.records)]
                 /\ data' = out.records
                 /\ app' = handleDataLoaded(app)
  /\ OnlyUpload

NextUpload == processFile \/ ReaderLoads

InitUpload ==
  /\ upload = [error |-> "null", reading |-> {}, files |-> 0, file |-> << >>,
               calls |-> << >>]
  /\ data = << StoreRow(1) >>
  /\ \E v \in {"dashboard", "table"}, y \in {"All", "2024"} :
       app = [view |-> v, selectedYear |-> y, selectedMonth |-> "All",
              selectedCustomer |-> "All", selectedProduct |-> "All"]
  /\ text = << >> /\ parsed = << >> /\ result = << >>
  /\ display = << >> /\ iso = << >> /\ shown = << >> /\ exported = << >>
  /\ store = << >> /\ table = << >> /\ modal = << >>

SpecUpload == InitUpload /\ [][NextUpload]_vars

\* ------------------------------------------------------------------------
\* C26: a failed import sets an error and never calls onDataLoaded
\* ------------------------------------------------------------------------
IsCsvFile(file) ==
  \/ file.type = "text/csv"
  \/ /\ Len(file.name) >= 4
     /\ file.name[Len(file.name) - 3] = "." /\ file.name[Len(file.name) - 2] = "c"
     /\ file.name[Len(file.name) - 1] = "s" /\ file.name[Len(file.name)] = "v"

\* C26: a step that offers a file that is neither of type text/csv nor named
\* *.csv, or that reads a text that is empty, has a header and no data row,
\* or makes parseCSV throw, sets an error message and leaves the calls of
\* onDataLoaded, the record list, the view and the filters as they were;
\* onDataLoaded is called only with a non-empty decoded list (which becomes
\* the record list), and never in a step that sets an error.
C26_FailedImportOnlySetsError ==
  [][ /\ (upload'.files # upload.files /\ ~IsCsvFile(upload'.file)) =>
           /\ upload'.error # "null" /\ upload'.reading = upload.reading
           /\ upload'.calls = upload.calls /\ data' = data /\ app' = app
      /\ (upload'.reading # upload.reading /\ upload'.files = upload.files
          /\ \/ text' = << >>
             \/ Cardinality(NonBlankSpans(text')) <= 1
             \/ parsed'[1].threw) =>
           /\ upload'.error # "null"
           /\ upload'.calls = upload.calls /\ data' = data /\ app' = app
      /\ upload'.calls # upload.calls =>
           /\ upload'.calls = Append(upload.calls, parsed'[1].records)
           /\ ~parsed'[1].threw /\ Len(parsed'[1].records) > 0
           /\ Cardinality(NonBlankSpans(text')) > 1
           /\ upload'.error = upload.error
      /\ (upload'.error # upload.error /\ upload'.error # "null") =>
           upload'.calls = upload.calls /\ data' = data /\ app' = app
    ]_vars

C26_Witness ==
  /\ upload.files = 2 /\ upload.reading = {} /\ upload.calls = << >>
  /\ upload.error = "No data found in file."
  /\ Cardinality(NonBlankSpans(text)) = 1
  /\ data = << StoreRow(1) >> /\ app.view = "table" /\ app.selectedYear = "2024"


\* ------------------------------------------------------------------------
\* DataTable: the length of the data prop (sorting keeps it), the page
\* index and the sort configuration
\* ------------------------------------------------------------------------
MaxRows == 45
rowsPerPage == 20

\* Math.ceil(length / rowsPerPage)
totalPages(length) == (length + rowsPerPage - 1) \div rowsPerPage

PreviousDisabled == table.page = 0

NextDisabled_LastPageOpen == table.page >= totalPages(table.rows)

NextDisabled ==
  table.page >= totalPages(table.rows) - 1 \/ totalPages(table.rows) = 0

OnlyTable ==
  UNCHANGED << data, result, text, parsed, display, iso, shown, exported,
               app, store, upload, modal >>

\* Previous: onClick={() => setPage(p => p - 1)}
ClickPrevious ==
  /\ ~PreviousDisabled
  /\ table' = [table EXCEPT !.page = @ - 1]
  /\ OnlyTable

\* Next: onClick={() => setPage(p => p + 1)}
ClickNext ==
  /\ ~NextDisabled
  /\ table' = [table EXCEPT !.page = @ + 1]
  /\ OnlyTable

\* handleSort(key) from a column header
handleSort ==
  /\ \E key \in {"Date", "QTY"} :
       table' = [table EXCEPT !.sortConfig =
          [key |-> key,
           direction |-> IF @ # << >> /\ @.key = key /\ @.direction = "asc"
                         THEN "desc" ELSE "asc"]]
  /\ OnlyTable

\* a new data prop, then the effect on [data.length]: setPage(0)
ChangeData ==
  /\ \E length \in 0..MaxRows :
       /\ length # table.rows
       /\ table' = [table EXCEPT !.rows = length, !.page = 0]
  /\ OnlyTable

NextTable == ClickPrevious \/ ClickNext \/ handleSort \/ ChangeData

InitTable ==
  /\ \E length \in 0..MaxRows :
       table = [rows |-> length, page |-> 0, sortConfig |-> << >>]
  /\ data = << >> /\ result = << >> /\ text = << >> /\ parsed = << >>
  /\ display = << >> /\ iso = << >> /\ shown = << >> /\ exported = << >>
  /\ app = << >> /\ store = << >> /\ upload = << >> /\ modal = << >>

SpecTable == InitTable /\ [][NextTable]_vars

\* ------------------------------------------------------------------------
\* C29: the page index stays in range
\* ------------------------------------------------------------------------
\* the least number of pages of 20 rows that hold n rows
PagesFor(n) == CHOOSE k \in 0..n : 20 * k >= n /\ (k = 0 \/ 20 * (k - 1) < n)

LastPage == IF PagesFor(table.rows) = 0 THEN 0 ELSE PagesFor(table.rows) - 1

\* C29: 0 <= page <= max(0, ceil(rows/20) - 1) in every state; Previous is
\* disabled at page 0; Next is disabled on the last page and when there are
\* no rows.
C29_PageInRange ==
  /\ table.page >= 0 /\ table.page <= LastPage
  /\ table.page = 0 => PreviousDisabled /\ ~ENABLED ClickPrevious
  /\ table.page = LastPage => NextDisabled /\ ~ENABLED ClickNext
  /\ table.rows = 0 => NextDisabled

C29_Witness ==
  /\ table.rows = 41 /\ table.page = 2 /\ NextDisabled /\ ~PreviousDisabled
  /\ table.sortConfig = [key |-> "QTY", direction |-> "desc"]


\* ------------------------------------------------------------------------
\* SuccessModal under App: isOpen is App's showSuccessModal, onClose sets it
\* false.  timer is the pending 3000 ms timer of the effect, closing the
\* number of pending setTimeout(onClose, 300) timers; opened, clicks, fired
\* and closed count the openings, the user's clicks in the current opening,
\* the auto-close timers that fired and the onClose calls.
\* ------------------------------------------------------------------------
MaxOpenings == 2
MaxClicks == 2

OnlyModal ==
  UNCHANGED << data, result, text, parsed, display, iso, shown, exported,
               app, store, upload, table >>

\* handleClose: setIsVisible(false); setTimeout(onClose, 300)
handleClose(m) == [m EXCEPT !.isVisible = FALSE, !.closing = @ + 1]

\* the effect's cleanup when isOpen changes: clearTimeout(timer)
Cleanup_KeepsTimer(m) == m

Cleanup(m) == [m EXCEPT !.timer = FALSE]

\* App sets showSuccessModal; the effect on [isOpen] runs:
\* setIsVisible(true) and setTimeout(handleClose, 3000)
Open ==
  /\ ~modal.isOpen /\ modal.opened < MaxOpenings
  /\ modal' = [modal EXCEPT !.isOpen = TRUE, !.isVisible = TRUE,
                  !.timer = TRUE, !.opened = @ + 1, !.clicks = 0]
  /\ OnlyModal

\* the 3000 ms timer fires: handleClose()
TimerFires ==
  /\ modal.timer
  /\ modal' = [handleClose(modal) EXCEPT !.timer = FALSE, !.fired = @ + 1]
  /\ OnlyModal

\* the user clicks the backdrop or the close button of the rendered modal
ClickClose ==
  /\ modal.isOpen \/ modal.isVisible
  /\ modal.clicks < MaxClicks
  /\ modal' = [handleClose(modal) EXCEPT !.clicks = @ + 1]
  /\ OnlyModal

\* a 300 ms timer fires: onClose(), that is setShowSuccessModal(false); when
\* isOpen changes, the effect's cleanup runs
OnCloseFires ==
  /\ modal.closing > 0
  /\ modal' = [(IF modal.isOpen THEN Cleanup(modal) ELSE modal) EXCEPT
                  !.isOpen = FALSE, !.closing = @ - 1, !.closed = @ + 1]
  /\ OnlyModal

NextModal == Open \/ TimerFires \/ ClickClose \/ OnCloseFires

InitModal ==
  /\ modal = [isOpen |-> FALSE, isVisible |-> FALSE, timer |-> FALSE,
              closing |-> 0, opened |-> 0, clicks |-> 0, fired |-> 0,
              closed |-> 0]
  /\ data = << >> /\ result = << >> /\ text = << >> /\ parsed = << >>
  /\ display = << >> /\ iso = << >> /\ shown = << >> /\ exported = << >>
  /\ app = << >> /\ store = << >> /\ upload = << >> /\ table = << >>

\* a timer that is pending fires
SpecModal ==
  /\ InitModal /\ [][NextModal]_vars
  /\ WF_vars(TimerFires) /\ WF_vars(OnCloseFires)

====
